---- MODULE Spec2Model ----
(***************************************************************************)
(* ScholarAI multi-agent research pipeline (art-turner submission).        *)
(*                                                                         *)
(* The model follows agents/orchestrator.py: MultiAgentOrchestrator.run    *)
(* splits the topic, fans the subtopics out to a ThreadPoolExecutor,       *)
(* collects the futures with as_completed, sorts the findings by index,    *)
(* synthesizes the report and runs the critic / revise loop.               *)
(*                                                                         *)
(* Sequence positions are 1-based here; Python's enumerate index i is the  *)
(* position i + 1, which is also the number in agent_id "Researcher i+1".  *)
(* Progress values are exact rationals <<numerator, denominator>>.         *)
(***************************************************************************)
EXTENDS Integers, Sequences, FiniteSets, TLC

\* ------------------------------------------------------------------ bounds
MaxSubtopics == 3
MaxRevisions == 3
MaxWorkers == 2
MaxFindings == 2
MaxPool == 2

\* ------------------------------------------------- values of the environment
\* What the progress_callback argument of run can be: None, a callable that
\* returns, or a callable that may raise on a call.
SinkKinds == {"absent", "noop", "raising"}

\* Values the Critic's JSON may carry in "decision": the two the prompt asks
\* for, and "OTHER" for any other string (review passes it on unchecked; a
\* CriticReview that rejects it is the raising outcome, ReviewRaises).
Decisions == {"APPROVED", "REVISION_NEEDED", "OTHER"}

\* str(e) of an exception raised inside a Researcher invocation.
ErrorTexts == {"Web search failed", "Request timed out"}

\* str(e) of an exception raised by the progress callback.
SinkErrorText == "progress sink failed"

\* A Source object: url is its identity key, title stands for the other
\* fields (title, snippet, score).
Src(u, t) == [url |-> u, title |-> t]

\* The source pools a Researcher may return in a run.
SourcePools == {<<Src("u1", "a")>>, <<Src("u1", "b"), Src("u2", "c")>>}

\* critic_strictness: the three levels the Critic knows, and some other
\* string; "balanced" is the default of the constructor.
StrictnessLevels == {"lenient", "balanced", "strict"}
DefaultStrictness == "balanced"
StrictnessValues == StrictnessLevels \cup {"harsh"}

\* The topic argument of run.
Topics == {"topic A", "topic B"}

NoError == "no error key"

VARIABLES
    enable_critic,      \* self.enable_critic
    max_revisions,      \* self.max_revisions
    max_workers,        \* self.max_workers
    sink,               \* kind of progress_callback handed to run
    topic,              \* the topic argument of run
    pc,                 \* position of the orchestration flow
    failure,            \* text of the exception that left run, "" if none
    subtopics,          \* analysis["subtopics"], as the sequence of names
    submitted,          \* number of executor.submit calls made
    future,             \* state of the future of every submitted task
    outcome,            \* what each resolved future holds
    collected,          \* indices as_completed has already yielded
    findings,           \* the (idx, finding) list of _research_in_parallel
    completed,          \* the completed counter of _research_in_parallel
    subtopic_findings,  \* the list handed to the Synthesizer
    iteration,          \* iteration of _run_critic_loop
    current_report,     \* current_report of _run_critic_loop / report of run
    review,             \* the review under consideration in the loop
    returned,           \* the report run returned
    progress,           \* last value passed to the progress callback
    verdicts,           \* the decisions the Critic has returned, in order
    calls,              \* number of invocations of each agent so far
    parse_input,        \* arguments of a call of _parse_findings
    parse_result,       \* what that call returned or raised
    openai_key,         \* whether api_key or OPENAI_API_KEY is set
    tavily_key,         \* whether TAVILY_API_KEY is set
    exports,            \* the calls of to_json made on the returned report
    critic_strictness,  \* the critic_strictness argument of the constructor
    agents,             \* the run of research_subtopic in each worker task
    num_subtopics,      \* the num_subtopics argument of the constructor
    topic_splitter      \* self.topic_splitter, <<>> before it is constructed

vars == <<enable_critic, max_revisions, max_workers, sink, topic, pc, failure,
          subtopics, submitted, future, outcome, collected, findings,
          completed, subtopic_findings, iteration, current_report, review,
          returned, progress, verdicts, calls, parse_input, parse_result,
          openai_key, tavily_key, exports, critic_strictness, agents,
          num_subtopics, topic_splitter>>

parser == <<parse_input, parse_result>>
config == <<enable_critic, max_revisions, max_workers, sink, topic, openai_key,
            tavily_key, critic_strictness, num_subtopics, topic_splitter>>
research == <<submitted, future, outcome, collected, findings, completed>>
critic == <<iteration, current_report, review, verdicts>>


\* ------------------------------------------------------------ data values
\* Name of the i-th Subtopic the Splitter returned.
SubtopicName(i) == <<"subtopic", i>>

\* analysis["subtopics"] for a Splitter answer with n subtopics.
SplitterOutput(n) == [i \in 1..n |-> SubtopicName(i)]

\* The SubtopicFindings a Researcher returns (ResearcherAgent._parse_findings
\* sets subtopic to the assigned subtopic's name and metadata.agent_id to the
\* agent's id; metadata carries no "error" key).
ResearcherResults(name, agent) ==
    { [subtopic |-> name,
       summary |-> <<"summary by researcher", "">>,
       key_insights |-> <<"insight">>,
       sources |-> p,
       researcher_notes |-> <<"notes", "">>,
       error |-> NoError,
       agent_id |-> agent] : p \in SourcePools }

\* Variant: the placeholder's metadata has no "error" key.
PlaceholderWithoutError(name, e) ==
    [subtopic |-> name,
     summary |-> <<"Research failed: ", e>>,
     key_insights |-> <<>>,
     sources |-> <<>>,
     researcher_notes |-> <<"Error during research: ", e>>,
     error |-> NoError,
     agent_id |-> 0]

\* The error placeholder built in the except branch of _research_in_parallel.
ErrorFinding(name, e) ==
    [subtopic |-> name,
     summary |-> <<"Research failed: ", e>>,
     key_insights |-> <<>>,
     sources |-> <<>>,
     researcher_notes |-> <<"Error during research: ", e>>,
     error |-> e,
     agent_id |-> 0]

\* str(e) of the ValueError of a constructor that finds no credential.
OpenAIKeyError == "OPENAI_API_KEY not found in environment variables"
TavilyKeyError == "TAVILY_API_KEY not found in environment variables"

\* The findings of a Researcher whose agent made no search call.
ResearchWithoutSearch(name, agent) ==
    [subtopic |-> name,
     summary |-> <<"summary by researcher", "">>,
     key_insights |-> <<>>,
     sources |-> <<>>,
     researcher_notes |-> <<"notes", "">>,
     error |-> NoError,
     agent_id |-> agent]

\* A future that has not resolved yet holds nothing.
Unresolved == [raised |-> FALSE, result |-> ErrorFinding(<<"none", 0>>, ""), text |-> ""]

\* future.result() returns a value or raises the task's exception.
Returned(f) == [raised |-> FALSE, result |-> f, text |-> ""]
Raised(e) == [raised |-> TRUE, result |-> ErrorFinding(<<"none", 0>>, ""), text |-> e]

\* ----------------------------------------------------------- pure helpers
\* findings.sort(key=lambda x: x[0]): Python's sort is stable, so an entry
\* comes after the entries with a smaller index and after the earlier
\* entries with its own index.
SortedPosition(s, j) ==
    Cardinality({m \in 1..Len(s) : s[m][1] < s[j][1]})
    + Cardinality({m \in 1..j : s[m][1] = s[j][1]})

SortByIdx(s) ==
    [p \in 1..Len(s) |->
        s[CHOOSE j \in 1..Len(s) : SortedPosition(s, j) = p]]

\* return [f for _, f in findings]
StripIdx(s) == [j \in 1..Len(s) |-> s[j][2]]

\* all_sources.extend(findings.sources) over all findings, in order.
RECURSIVE CollectSources(_)
CollectSources(fs) ==
    IF fs = <<>> THEN <<>>
    ELSE CollectSources(SubSeq(fs, 1, Len(fs) - 1)) \o fs[Len(fs)].sources

\* Variant: of the sources with one URL the last one seen is kept.
RECURSIVE UniqueSourcesKeepLast(_)
UniqueSourcesKeepLast(srcs) ==
    IF srcs = <<>> THEN <<>>
    ELSE LET rest == UniqueSourcesKeepLast(Tail(srcs))
         IN  IF \E j \in 1..Len(rest) : rest[j].url = Head(srcs).url
             THEN rest ELSE <<Head(srcs)>> \o rest

\* Remove duplicates by URL, keeping the first source seen with each URL.
RECURSIVE UniqueSources(_)
UniqueSources(srcs) ==
    IF srcs = <<>> THEN <<>>
    ELSE LET front == UniqueSources(SubSeq(srcs, 1, Len(srcs) - 1))
             last == srcs[Len(srcs)]
         IN  IF \E j \in 1..Len(front) : front[j].url = last.url
             THEN front ELSE Append(front, last)

\* Field defaults of MultiAgentReport (models/report.py).
DefaultRevisionCount == 0
NoReview ==
    [decision |-> "None", overall_score |-> 0, revision_instructions |-> "",
     iteration |-> 0, reviewed |-> 0]

\* SynthesizerAgent._build_report; id numbers the report objects built in a
\* run (1 for synthesize, 1 + k for the k-th revise).
BuildReport(t, fs, id) ==
    [id |-> id,
     topic |-> t,
     subtopics |-> [j \in 1..Len(fs) |-> fs[j].subtopic],
     subtopic_findings |-> fs,
     all_sources |-> UniqueSources(CollectSources(fs)),
     revision_count |-> DefaultRevisionCount,
     critic_review |-> NoReview]

\* No report has been built yet.
NoReport == BuildReport("", <<>>, 0)

\* Variant: the increment of revision_count is missing.
ReviseKeepsCount(report, id) ==
    BuildReport(report.topic, report.subtopic_findings, id)

\* Variant: the revised report is rebuilt from the first finding only.
ReviseFirstFindingOnly(report, id) ==
    [BuildReport(report.topic, SubSeq(report.subtopic_findings, 1, 1), id)
        EXCEPT !.revision_count = report.revision_count + 1]

\* revised_report.revision_count = report.revision_count + 1
Revise(report, id) ==
    [BuildReport(report.topic, report.subtopic_findings, id)
        EXCEPT !.revision_count = report.revision_count + 1]

\* ---------------------------------------------------------------- progress
ResearchProgress(c, n) == <<2 * n + 6 * c, 10 * n>>
CriticProgress(it, m) == <<80 * (m + 1) + 15 * it, 100 * (m + 1)>>

\* update_progress / progress_callback: nothing is passed when the callback
\* is None.
Emit(p) == progress' = IF sink = "absent" THEN progress ELSE p

\* Whether a call of the callback can raise.
SinkOutcomes == IF sink = "raising" THEN {TRUE, FALSE} ELSE {FALSE}

Fail(text) == pc' = "failed" /\ failure' = text

Count(kind) == calls' = [calls EXCEPT ![kind] = @ + 1]

\* ----------------------------------------------------------- JSON and lists
\* A JSON object is a dict in which any key may be missing: a function whose
\* domain is the set of keys that are present.
NoKeys == [k \in {} |-> 0]

\* dict.get(key, default)
Get(dict, key, default) == IF key \in DOMAIN dict THEN dict[key] ELSE default

\* The sequences of at most k elements of S.
SeqsUpTo(S, k) == UNION {[1..m -> S] : m \in 0..k}

\* ------------------------------------------ ResearcherAgent._parse_findings
\* Bounds of the arguments of _parse_findings.
MaxBody == 3
MaxInsights == 2
MaxSources == 4

\* analysis[:500] and sources[:3]
SummaryLimit == 500
CitationLimit == 3

\* A Python string. A string built by the program is named by its format
\* (kind) and the subtopic name put into it (arg). The agent's final message
\* (kind "raw") is a body of at most MaxBody characters, each a brace or
\* some other character "x", followed by pad further characters that are
\* not braces.
NoName == <<"none", 0>>
Lit(kind) == [kind |-> kind, body |-> <<>>, pad |-> 0, arg |-> NoName]
Fmt(kind, name) == [kind |-> kind, body |-> <<>>, pad |-> 0, arg |-> name]
Raw(body, pad) == [kind |-> "raw", body |-> body, pad |-> pad, arg |-> NoName]

\* len(text), bool(text) and text[:n] for a raw string
TextLen(text) == Len(text.body) + text.pad
Truthy(text) == TextLen(text) > 0
Min(a, b) == IF a <= b THEN a ELSE b
Max(a, b) == IF a >= b THEN a ELSE b

\* self.num_subtopics = min(max(num_subtopics, 2), 4): the target count the
\* Splitter's prompt names.
MinTarget == 2
MaxTarget == 4

\* Variant: the target is only raised to the minimum.
ClampTargetFromBelow(n) == Max(n, MinTarget)

ClampTarget(n) == Min(Max(n, MinTarget), MaxTarget)

\* num_subtopics: int = 3
DefaultNumSubtopics == 3

\* The TopicSplitterAgent constructed with num_subtopics = n.
TopicSplitterAgent(n) == [num_subtopics |-> ClampTarget(n)]
Truncate(text, n) ==
    LET b == SubSeq(text.body, 1, Min(Len(text.body), n))
    IN  Raw(b, Min(text.pad, n - Len(b)))

\* str.find(c) and str.rfind(c), with Python's indices from 0 and -1 for
\* "not found"; the padding holds no brace.
Find(text, c) ==
    LET hits == {j \in 1..Len(text.body) : text.body[j] = c}
    IN  IF hits = {} THEN -1
        ELSE (CHOOSE j \in hits : \A k \in hits : j <= k) - 1

RFind(text, c) ==
    LET hits == {j \in 1..Len(text.body) : text.body[j] = c}
    IN  IF hits = {} THEN -1
        ELSE (CHOOSE j \in hits : \A k \in hits : j >= k) - 1

\* analysis[json_start:json_end] for 0 <= json_start < json_end
Slice(text, start, end) == SubSeq(text.body, start + 1, end)

\* JSON values of the agent's answer. A dict is a function whose domain is
\* the set of keys that are present.
Restrict(f, D) == [k \in D |-> f[k]]

\* The elements of a "key_insights" list: dicts with any of the keys
\* "finding" and "citations", or a string where a dict is expected.
InsightItems ==
    {[type |-> "obj", fields |-> Restrict([finding |-> Lit("F"),
                                            citations |-> <<"u9">>], D)] :
        D \in SUBSET {"finding", "citations"}}
    \cup {[type |-> "str", fields |-> NoKeys]}

\* The values under "key_insights": a list, null, or a non-empty string.
KeyInsightsValues ==
    {[type |-> "list", items |-> l] : l \in SeqsUpTo(InsightItems, MaxInsights)}
    \cup {[type |-> "null", items |-> <<>>], [type |-> "str", items |-> <<>>]}

\* The dicts json.loads can return for the text between the braces.
ResultDicts ==
    {Restrict([key_insights |-> ki, summary |-> Lit("S"),
               researcher_notes |-> Lit("N")], D) :
        ki \in KeyInsightsValues,
        D \in SUBSET {"key_insights", "summary", "researcher_notes"}}

\* What json.loads does with a given text: it returns a dict or raises
\* json.JSONDecodeError.
Decoded(d) == [ok |-> TRUE, data |-> d]
DecodeError == [ok |-> FALSE, data |-> NoKeys]

\* The final message of the agent: message.content is None or a string;
\* json is what json.loads does with the text from the first "{" to the
\* last "}". The text "{}" decodes to the empty dict.
NoContent == Raw(<<"none">>, 0)
Message(isNone, text, json) ==
    [isNone |-> isNone, text |-> text, json |-> json]

Bodies == SeqsUpTo({"{", "}", "x"}, MaxBody)
Pads == {0, SummaryLimit - 2, SummaryLimit}

Messages ==
    {Message(TRUE, NoContent, DecodeError)}
    \cup {Message(FALSE, Raw(b, pd), j) :
            b \in Bodies, pd \in Pads,
            j \in {DecodeError, Decoded(NoKeys),
                   Decoded([summary |-> Lit("S")])}}
    \cup {Message(FALSE, Raw(<<"{", "x", "}">>, 0), Decoded(d)) :
            d \in ResultDicts}

WellFormed(m) ==
    (/\ ~m.isNone
     /\ Find(m.text, "{") # -1
     /\ Slice(m.text, Find(m.text, "{"), RFind(m.text, "}") + 1) = <<"{", "}">>)
        => m.json = Decoded(NoKeys)

\* The source pool: the dicts web_search returned, each with its url and
\* title.
ParsePools == SeqsUpTo({Src("u1", "a"), Src("u2", "b")}, MaxSources)

\* A query is the string under "query" of a tool call's arguments, or None
\* when the arguments have no such key.
NoQuery == "None"

\* The queries_used lists handed to _parse_findings.
ParseQueries == {<<>>, <<"q2", NoQuery, "q2">>}

\* The arguments of _parse_findings, in a Researcher with a given agent_id.
ParseInputs ==
    {[subtopic |-> [name |-> SubtopicName(i)], sources |-> p, analysis |-> m,
      queries_used |-> q, agent_id |-> i] :
        i \in 1..2, p \in ParsePools, m \in {x \in Messages : WellFormed(x)},
        q \in ParseQueries}

NoInput ==
    [subtopic |-> [name |-> NoName], sources |-> <<>>,
     analysis |-> Message(TRUE, NoContent, DecodeError),
     queries_used |-> <<>>, agent_id |-> 0]

\* Results of a call: nothing yet, a SubtopicFindings, or an exception.
NoFindings ==
    [subtopic |-> NoName, summary |-> Lit(""), key_insights |-> <<>>,
     sources |-> <<>>, researcher_notes |-> Lit(""), agent_id |-> 0,
     queries_used |-> <<>>, num_sources |-> 0]
NotParsed == [state |-> "not called", error |-> "", findings |-> NoFindings]
ParseReturned(f) == [state |-> "returned", error |-> "", findings |-> f]
ParseRaised(e) == [state |-> "raised", error |-> e, findings |-> NoFindings]

\* The try block: the text from the first "{" to the last "}" is decoded;
\* json.JSONDecodeError, and no other exception, gives the empty dict.
JsonStart(analysis) == Find(analysis.text, "{")
JsonEnd(analysis) == RFind(analysis.text, "}") + 1

ResultData(analysis) ==
    IF JsonStart(analysis) # -1 /\ JsonEnd(analysis) > JsonStart(analysis)
    THEN IF analysis.json.ok THEN analysis.json.data ELSE NoKeys
    ELSE NoKeys

\* for insight_data in result_data.get("key_insights", []): the loop raises
\* when the value cannot be iterated (null) or an element has no get (an
\* element of a list, or a character of a string, that is not a dict).
EmptyList == [type |-> "list", items |-> <<>>]

InsightsError(result_data) ==
    LET v == Get(result_data, "key_insights", EmptyList)
    IN  IF v.type = "null" THEN "TypeError"
        ELSE IF v.type = "str" THEN "AttributeError"
        ELSE IF \E j \in 1..Len(v.items) : v.items[j].type # "obj"
        THEN "AttributeError"
        ELSE ""

KeyFinding(finding, citations) ==
    [finding |-> finding, citations |-> citations]

KeyInsights(result_data) ==
    LET v == Get(result_data, "key_insights", EmptyList)
    IN  [j \in 1..Len(v.items) |->
            KeyFinding(Get(v.items[j].fields, "finding", Lit("")),
                       Get(v.items[j].fields, "citations", <<>>))]

\* if not key_insights and sources: one default insight citing the first
\* three sources.
DefaultInsight(result_data, subtopic, sources) ==
    KeyFinding(Get(result_data, "summary",
                   Fmt("Research findings on ", subtopic.name)),
               [j \in 1..Min(CitationLimit, Len(sources)) |-> sources[j].url])

WithDefaultInsight(key_insights, result_data, subtopic, sources) ==
    IF key_insights = <<>> /\ sources # <<>>
    THEN <<DefaultInsight(result_data, subtopic, sources)>>
    ELSE key_insights

\* result_data.get("summary", analysis[:500] if analysis else f"...")
Summary(result_data, subtopic, analysis) ==
    Get(result_data, "summary",
        IF Truthy(analysis.text)
        THEN Truncate(analysis.text, SummaryLimit)
        ELSE Fmt("Research on ", subtopic.name))

\* source_objects: one Source object per result dict, in the list's order.
SourceObjects(sources) ==
    [j \in 1..Len(sources) |-> Src(sources[j].url, sources[j].title)]

\* _parse_findings(subtopic, sources, analysis, queries_used)
ParseFindings(in) ==
    IF in.analysis.isNone
    THEN \* None has no find
         ParseRaised("AttributeError")
    ELSE LET result_data == ResultData(in.analysis)
         IN  IF InsightsError(result_data) # ""
             THEN ParseRaised(InsightsError(result_data))
             ELSE ParseReturned(
                    [subtopic |-> in.subtopic.name,
                     summary |-> Summary(result_data, in.subtopic, in.analysis),
                     key_insights |->
                        WithDefaultInsight(KeyInsights(result_data),
                                           result_data, in.subtopic, in.sources),
                     sources |-> SourceObjects(in.sources),
                     researcher_notes |->
                        Get(result_data, "researcher_notes", Lit("")),
                     agent_id |-> in.agent_id,
                     queries_used |-> in.queries_used,
                     num_sources |-> Len(in.sources)])

\* -------------------------------------------------------------------- Init
\* The orchestrator has been constructed and run has been called.
Init ==
    /\ enable_critic \in BOOLEAN
    /\ max_revisions \in -1..MaxRevisions
    /\ max_workers \in 0..MaxWorkers
    /\ sink \in SinkKinds
    /\ topic \in Topics
    /\ pc = "start"
    /\ failure = ""
    /\ subtopics = <<>>
    /\ submitted = 0
    /\ future = <<>>
    /\ outcome = <<>>
    /\ collected = {}
    /\ findings = <<>>
    /\ completed = 0
    /\ subtopic_findings = <<>>
    /\ iteration = 0
    /\ current_report = NoReport
    /\ review = NoReview
    /\ returned = NoReport
    /\ progress = <<0, 1>>
    /\ verdicts = <<>>
    /\ parse_input = NoInput
    /\ parse_result = NotParsed
    /\ openai_key = TRUE
    /\ tavily_key = TRUE
    /\ exports = <<>>
    /\ critic_strictness = DefaultStrictness
    /\ agents = <<>>
    /\ num_subtopics = DefaultNumSubtopics
    /\ topic_splitter = <<TopicSplitterAgent(num_subtopics)>>
    /\ calls = [splitter |-> 0, researcher |-> 0, synthesize |-> 0,
                critic |-> 0, revise |-> 0]

\* ------------------------------------------------------------ run, step 1
\* update_progress(0.1, ...) and the call of topic_splitter.analyze_topic.
RunStart ==
    /\ pc = "start"
    /\ Emit(<<1, 10>>)
    /\ \E raises \in SinkOutcomes :
         IF raises
         THEN Fail(SinkErrorText) /\ UNCHANGED calls
         ELSE pc' = "splitting" /\ Count("splitter") /\ UNCHANGED failure
    /\ UNCHANGED <<config, parser, exports, agents, subtopics, research, subtopic_findings, critic,
                   returned>>

\* analyze_topic raises on output that is not JSON.
SplitterRaises ==
    /\ pc = "splitting"
    /\ Fail("splitter output is not valid JSON")
    /\ UNCHANGED <<config, parser, exports, agents, subtopics, research, subtopic_findings, critic,
                   returned, progress, calls>>

\* Variant: the test is "subtopics is None", which an empty list passes.
NoSubtopicsIsNone(sts) == FALSE

\* if not subtopics
NoSubtopics(sts) == Len(sts) = 0

\* analyze_topic returns n subtopics; run checks the list, reports progress
\* and enters _research_in_parallel, which creates the ThreadPoolExecutor.
SplitReturn(n) ==
    /\ pc = "splitting"
    /\ subtopics' = SplitterOutput(n)
    /\ IF NoSubtopics(subtopics')
       THEN /\ Fail("Topic splitter failed to generate subtopics")
            /\ UNCHANGED <<progress, future, outcome>>
       ELSE /\ Emit(<<2, 10>>)
            /\ \E raises \in SinkOutcomes :
                 IF raises
                 THEN Fail(SinkErrorText) /\ UNCHANGED <<future, outcome>>
                 ELSE IF max_workers <= 0
                 THEN /\ Fail("max_workers must be greater than 0")
                      /\ UNCHANGED <<future, outcome>>
                 ELSE /\ pc' = IF n = 0 THEN "collecting" ELSE "submitting"
                      /\ future' = [i \in 1..n |-> "unsubmitted"]
                      /\ outcome' = [i \in 1..n |-> Unresolved]
                      /\ UNCHANGED failure
    /\ UNCHANGED <<config, parser, exports, agents, submitted, collected, findings, completed,
                   subtopic_findings, critic, returned, calls>>

\* ------------------------------------------------ _research_in_parallel
NumSubtopics == Len(subtopics)
Running == {i \in 1..NumSubtopics : future[i] = "running"}

\* Variant: a finished task is taken up again.
QueuedOrDone == {i \in 1..NumSubtopics : future[i] \in {"queued", "done"}}

\* The submitted tasks no worker has taken yet.
Queued == {i \in 1..NumSubtopics : future[i] = "queued"}

\* executor.submit(research_subtopic, subtopic, agent_id) for the next
\* subtopic of the enumerate loop.
Submit ==
    /\ pc = "submitting"
    /\ submitted < NumSubtopics
    /\ submitted' = submitted + 1
    /\ future' = [future EXCEPT ![submitted + 1] = "queued"]
    /\ pc' = IF submitted + 1 = NumSubtopics THEN "collecting" ELSE pc
    /\ UNCHANGED <<config, parser, exports, agents, failure, subtopics, outcome, collected, findings,
                   completed, subtopic_findings, critic, returned, progress,
                   calls>>

\* Variant: the pool starts a thread for every submitted task.
AnyWorker == TRUE

\* Variant: a worker that has finished a task takes no other task.
WorkerNeverReleased ==
    Cardinality({i \in 1..Len(subtopics) : future[i] \in {"running", "done"}})
        < max_workers

\* ThreadPoolExecutor(max_workers=self.max_workers): a task is started only
\* while fewer than max_workers tasks are running.
WorkerFree == Cardinality(Running) < max_workers

\* A free worker of the pool takes the oldest queued task and creates its
\* own ResearcherAgent.
StartTask(i) ==
    /\ pc \in {"submitting", "collecting"}
    /\ i \in Queued
    /\ \A j \in Queued : i <= j
    /\ WorkerFree
    /\ future' = [future EXCEPT ![i] = "running"]
    /\ Count("researcher")
    /\ UNCHANGED <<config, parser, exports, agents, pc, failure, subtopics, submitted, outcome,
                   collected, findings, completed, subtopic_findings, critic,
                   returned, progress>>

\* What research_subtopic can do for a subtopic: return findings or raise an
\* error of the model or of the search. Each web_search call constructs a
\* WebSearchTool, which raises ValueError when TAVILY_API_KEY is not set;
\* research_subtopic does not catch it. Without the key a Researcher can
\* return only if its agent asked for no search.
ResearcherOutcomes(name, agent) ==
    IF tavily_key
    THEN {Returned(f) : f \in ResearcherResults(name, agent)}
         \cup {Raised(e) : e \in ErrorTexts}
    ELSE {Returned(ResearchWithoutSearch(name, agent)), Raised(TavilyKeyError),
          Raised("Request timed out")}

\* researcher.research_subtopic returns its findings or raises.
FinishTask(i) ==
    /\ pc \in {"submitting", "collecting"}
    /\ i \in Running
    /\ future' = [future EXCEPT ![i] = "done"]
    /\ \E o \in ResearcherOutcomes(subtopics[i], i) :
         outcome' = [outcome EXCEPT ![i] = o]
    /\ UNCHANGED <<config, parser, exports, agents, pc, failure, subtopics, submitted, collected,
                   findings, completed, subtopic_findings, critic, returned,
                   progress, calls>>

\* One pass of the as_completed loop for the future of index i.
Collect(i) ==
    /\ pc = "collecting"
    /\ i \in 1..NumSubtopics
    /\ future[i] = "done"
    /\ i \notin collected
    /\ collected' = collected \cup {i}
    /\ IF outcome[i].raised
       THEN \* future.result() raises: the except branch
            /\ findings' = Append(findings,
                   <<i, ErrorFinding(subtopics[i], outcome[i].text)>>)
            /\ completed' = completed + 1
            /\ UNCHANGED progress
       ELSE /\ Emit(ResearchProgress(completed + 1, NumSubtopics))
            /\ \E raises \in SinkOutcomes :
                 IF raises
                 THEN \* the callback raises inside the try block
                      /\ findings' = findings \o
                           << <<i, outcome[i].result>>,
                              <<i, ErrorFinding(subtopics[i], SinkErrorText)>> >>
                      /\ completed' = completed + 2
                 ELSE /\ findings' = Append(findings, <<i, outcome[i].result>>)
                      /\ completed' = completed + 1
    /\ UNCHANGED <<config, parser, exports, agents, pc, failure, subtopics, submitted, future, outcome,
                   subtopic_findings, critic, returned, calls>>

\* Variant: the results are returned as soon as one future was collected.
SomeCollected == collected # {}

\* as_completed(future_to_subtopic) is exhausted once it has yielded every
\* submitted future.
AllCollected == collected = 1..NumSubtopics

\* The as_completed loop has yielded every future: the executor is shut
\* down, the findings are sorted and returned (the local list is gone with
\* the call), run reports progress and calls synthesizer.synthesize.
HandOff ==
    /\ pc = "collecting"
    /\ AllCollected
    /\ subtopic_findings' = StripIdx(SortByIdx(findings))
    /\ findings' = <<>>
    /\ Emit(<<7, 10>>)
    /\ \E raises \in SinkOutcomes :
         IF raises
         THEN Fail(SinkErrorText) /\ UNCHANGED calls
         ELSE pc' = "synthesizing" /\ Count("synthesize") /\ UNCHANGED failure
    /\ UNCHANGED <<config, parser, exports, agents, subtopics, submitted, future, outcome, collected,
                   completed, critic, returned>>

\* ------------------------------------------------------------ run, step 3
\* synthesize raises when the model's answer is not JSON.
SynthesizeRaises ==
    /\ pc = "synthesizing"
    /\ Fail("synthesizer output is not valid JSON")
    /\ UNCHANGED <<config, parser, exports, agents, subtopics, research, subtopic_findings, critic,
                   returned, progress, calls>>

\* self.critic is a CriticAgent exactly when enable_critic was set.
CriticExists == enable_critic

\* Variant: the critic loop is entered whatever enable_critic is.
EnterCriticLoopAlways == TRUE

\* if self.enable_critic and self.critic
EnterCriticLoop == enable_critic /\ CriticExists

\* synthesize returns the report; run enters the critic loop when
\* self.enable_critic and self.critic hold.
SynthesizeReturn ==
    /\ pc = "synthesizing"
    /\ current_report' = BuildReport(topic, subtopic_findings, 1)
    /\ iteration' = 0
    /\ pc' = IF EnterCriticLoop THEN "critic_loop" ELSE "finishing"
    /\ UNCHANGED <<config, parser, exports, agents, failure, subtopics, research, subtopic_findings,
                   review, verdicts, returned, progress, calls>>

\* ------------------------------------------------------- _run_critic_loop
\* Variant: the while test admits one more pass.
LoopTestInclusive(it, m) == it <= m

\* while iteration < self.max_revisions
LoopTest(it, m) == it < m

\* The while test; when it holds: iteration += 1, update_progress and the
\* call of critic.review(current_report).
LoopHead ==
    /\ pc = "critic_loop"
    /\ IF LoopTest(iteration, max_revisions)
       THEN /\ iteration' = iteration + 1
            /\ Emit(CriticProgress(iteration + 1, max_revisions))
            /\ \E raises \in SinkOutcomes :
                 IF raises
                 THEN Fail(SinkErrorText) /\ UNCHANGED calls
                 ELSE pc' = "reviewing" /\ Count("critic") /\ UNCHANGED failure
       ELSE /\ pc' = "finishing"
            /\ UNCHANGED <<iteration, progress, failure, calls>>
    /\ UNCHANGED <<config, parser, exports, agents, subtopics, research, subtopic_findings,
                   current_report, review, verdicts, returned>>

\* critic.review raises when the model's answer is not JSON.
ReviewRaises ==
    /\ pc = "reviewing"
    /\ Fail("critic output is not valid JSON")
    /\ UNCHANGED <<config, parser, exports, agents, subtopics, research, subtopic_findings, critic,
                   returned, progress, calls>>

\* Variant: the exhaustion test is off by one.
RevisionsExhaustedOffByOne(it, m) == it > m

\* if iteration >= self.max_revisions
RevisionsExhausted(it, m) == it >= m

\* Variant: the review is attached to a report revised once more.
AttachToRevised(report, r) ==
    [BuildReport(report.topic, report.subtopic_findings, report.id + 1)
        EXCEPT !.revision_count = report.revision_count + 1,
               !.critic_review = r]

\* current_report.critic_review = review
AttachReview(report, r) == [report EXCEPT !.critic_review = r]

\* Variant: the break is missing and control returns to the while test.
NoBreak == "critic_loop"

\* break: control leaves the while loop and reaches return current_report.
AfterBreak == "finishing"

\* The JSON object of the Critic's answer.
CriticOutputs ==
    {[decision |-> "APPROVED", overall_score |-> 9,
      revision_instructions |-> ""],
     [decision |-> "REVISION_NEEDED", overall_score |-> 4,
      revision_instructions |-> "fix the citations"],
     [decision |-> "OTHER", overall_score |-> 4, revision_instructions |-> ""],
     NoKeys}

\* Every answer the Critic can give with these values, any key missing.
AnyCriticOutputs ==
    {Restrict([decision |-> d, overall_score |-> 4,
               revision_instructions |-> t], D) :
        d \in Decisions, t \in {"", "fix the citations"},
        D \in SUBSET {"decision", "overall_score", "revision_instructions"}}

\* strictness_config.get(strictness, strictness_config["balanced"]): the
\* level whose description and revision threshold go into the system prompt.
StrictnessConfig(strictness) ==
    IF strictness \in StrictnessLevels THEN strictness ELSE DefaultStrictness

\* The system prompt of the Critic: the strictness in upper case and the
\* texts of the level.
CriticSystemPrompt ==
    [strictness |-> critic_strictness,
     description |-> StrictnessConfig(critic_strictness),
     revision_threshold |-> StrictnessConfig(critic_strictness)]

\* Variant: under the strict level a missing decision is read as a request
\* for revision.
ParseReviewByStrictness(result_data) ==
    [decision |-> Get(result_data, "decision",
                      IF critic_strictness = "strict"
                      THEN "REVISION_NEEDED" ELSE "APPROVED"),
     overall_score |-> Get(result_data, "overall_score", 7),
     revision_instructions |-> Get(result_data, "revision_instructions", "")]

\* CriticReview(decision=result_data.get("decision", "APPROVED"),
\*              overall_score=result_data.get("overall_score", 7), ...,
\*              revision_instructions=result_data.get("revision_instructions", ""))
ParseReview(result_data) ==
    [decision |-> Get(result_data, "decision", "APPROVED"),
     overall_score |-> Get(result_data, "overall_score", 7),
     revision_instructions |-> Get(result_data, "revision_instructions", "")]

\* critic.review parses the answer result_data and returns the review; the
\* loop body sets its iteration and handles its decision d.
ReviewReturn(result_data) ==
    /\ pc = "reviewing"
    /\ LET d == ParseReview(result_data).decision
           r == [decision |-> d,
                 overall_score |-> ParseReview(result_data).overall_score,
                 revision_instructions |->
                    ParseReview(result_data).revision_instructions,
                 iteration |-> iteration,
                 reviewed |-> current_report.id]
       IN  /\ review' = r
           /\ verdicts' = Append(verdicts, d)
           /\ IF d = "APPROVED" \/
                 (d = "REVISION_NEEDED" /\ RevisionsExhausted(iteration, max_revisions))
              THEN \* attach the review and break
                   /\ current_report' = AttachReview(current_report, r)
                   /\ Emit(<<95, 100>>)
                   /\ \E raises \in SinkOutcomes :
                        IF raises
                        THEN Fail(SinkErrorText)
                        ELSE pc' = AfterBreak /\ UNCHANGED failure
                   /\ UNCHANGED calls
              ELSE IF d = "REVISION_NEEDED"
              THEN \* request a revision from the synthesizer
                   /\ Emit(CriticProgress(iteration, max_revisions))
                   /\ \E raises \in SinkOutcomes :
                        IF raises
                        THEN Fail(SinkErrorText) /\ UNCHANGED calls
                        ELSE pc' = "revising" /\ Count("revise") /\ UNCHANGED failure
                   /\ UNCHANGED current_report
              ELSE \* neither branch: back to the while test
                   /\ pc' = "critic_loop"
                   /\ UNCHANGED <<current_report, progress, failure, calls>>
    /\ UNCHANGED <<config, parser, exports, agents, subtopics, research, subtopic_findings, iteration,
                   returned>>

\* synthesizer.revise raises when the model's answer is not JSON.
ReviseRaises ==
    /\ pc = "revising"
    /\ Fail("synthesizer output is not valid JSON")
    /\ UNCHANGED <<config, parser, exports, agents, subtopics, research, subtopic_findings, critic,
                   returned, progress, calls>>

\* synthesizer.revise returns the revised report, which becomes
\* current_report.
ReviseReturn ==
    /\ pc = "revising"
    /\ current_report' = Revise(current_report, 1 + calls.revise)
    /\ pc' = "critic_loop"
    /\ UNCHANGED <<config, parser, exports, agents, failure, subtopics, research, subtopic_findings,
                   iteration, review, verdicts, returned, progress, calls>>

\* ------------------------------------------------------------ run, the end
\* update_progress(1.0, ...) and return report.
Finish ==
    /\ pc = "finishing"
    /\ Emit(<<1, 1>>)
    /\ \E raises \in SinkOutcomes :
         IF raises
         THEN Fail(SinkErrorText) /\ UNCHANGED returned
         ELSE pc' = "done" /\ returned' = current_report /\ UNCHANGED failure
    /\ UNCHANGED <<config, parser, exports, agents, subtopics, research, subtopic_findings, critic,
                   calls>>

Next ==
    \/ RunStart
    \/ SplitterRaises
    \/ \E n \in 0..MaxSubtopics : SplitReturn(n)
    \/ Submit
    \/ \E i \in 1..NumSubtopics : StartTask(i)
    \/ \E i \in 1..NumSubtopics : FinishTask(i)
    \/ \E i \in 1..NumSubtopics : Collect(i)
    \/ HandOff
    \/ SynthesizeRaises
    \/ SynthesizeReturn
    \/ LoopHead
    \/ ReviewRaises
    \/ \E o \in CriticOutputs : ReviewReturn(o)
    \/ ReviseRaises
    \/ ReviseReturn
    \/ Finish

Spec == Init /\ [][Next]_vars

\* ------------------------------------------------ the critic loop alone
\* The states in which run enters _run_critic_loop (here after a research
\* phase in which every task failed), and the steps from there to the
\* return of run. The orchestration flow is a single thread that keeps
\* running and every call of the Critic or the Synthesizer returns or
\* raises: weak fairness of the steps.
LoopInit ==
    /\ enable_critic = TRUE
    /\ max_revisions \in 0..MaxRevisions
    /\ max_workers \in 1..MaxWorkers
    /\ sink \in SinkKinds
    /\ topic \in Topics
    /\ pc = "critic_loop"
    /\ failure = ""
    /\ \E n \in 1..MaxSubtopics :
         /\ subtopics = SplitterOutput(n)
         /\ submitted = n
         /\ future = [i \in 1..n |-> "done"]
         /\ outcome = [i \in 1..n |-> Raised("Request timed out")]
         /\ collected = 1..n
         /\ completed = n
         /\ subtopic_findings =
              [i \in 1..n |-> ErrorFinding(SubtopicName(i), "Request timed out")]
         /\ calls = [splitter |-> 1, researcher |-> n, synthesize |-> 1,
                     critic |-> 0, revise |-> 0]
    /\ findings = <<>>
    /\ iteration = 0
    /\ current_report = BuildReport(topic, subtopic_findings, 1)
    /\ review = NoReview
    /\ returned = NoReport
    /\ progress = IF sink = "absent" THEN <<0, 1>> ELSE <<7, 10>>
    /\ verdicts = <<>>
    /\ parse_input = NoInput
    /\ parse_result = NotParsed
    /\ openai_key = TRUE
    /\ tavily_key = TRUE
    /\ exports = <<>>
    /\ critic_strictness = DefaultStrictness
    /\ agents = <<>>
    /\ num_subtopics = DefaultNumSubtopics
    /\ topic_splitter = <<TopicSplitterAgent(num_subtopics)>>

LoopNext ==
    \/ LoopHead
    \/ ReviewRaises
    \/ \E o \in CriticOutputs : ReviewReturn(o)
    \/ ReviseRaises
    \/ ReviseReturn
    \/ Finish

LoopSpec == LoopInit /\ [][LoopNext]_vars /\ WF_vars(LoopNext)

\* -------------------------------------------- synthesis and revision alone
\* Sources a Researcher may return.
SourceUniverse == {Src(u, t) : u \in {"u1", "u2"}, t \in {"a", "b"}}

\* The SubtopicFindings of a Researcher that returned the pool p.
FindingWith(name, agent, p) ==
    [subtopic |-> name,
     summary |-> <<"summary by researcher", "">>,
     key_insights |-> <<"insight">>,
     sources |-> p,
     researcher_notes |-> <<"notes", "">>,
     error |-> NoError,
     agent_id |-> agent]

\* The states in which run calls synthesizer.synthesize after a research
\* phase in which every Researcher returned, for every choice of the source
\* pools, and the steps from there to the return of run.
SynthInit ==
    /\ enable_critic = TRUE
    /\ max_revisions \in {1, 2}
    /\ max_workers = 1
    /\ sink = "absent"
    /\ topic \in Topics
    /\ pc = "synthesizing"
    /\ failure = ""
    /\ \E n \in 1..MaxFindings :
         \E pools \in [1..n -> SeqsUpTo(SourceUniverse, MaxPool)] :
           /\ subtopics = SplitterOutput(n)
           /\ submitted = n
           /\ future = [i \in 1..n |-> "done"]
           /\ subtopic_findings =
                [i \in 1..n |-> FindingWith(SubtopicName(i), i, pools[i])]
           /\ outcome = [i \in 1..n |-> Returned(subtopic_findings[i])]
           /\ collected = 1..n
           /\ completed = n
           /\ calls = [splitter |-> 1, researcher |-> n, synthesize |-> 1,
                       critic |-> 0, revise |-> 0]
    /\ findings = <<>>
    /\ iteration = 0
    /\ current_report = NoReport
    /\ review = NoReview
    /\ returned = NoReport
    /\ progress = <<0, 1>>
    /\ verdicts = <<>>
    /\ parse_input = NoInput
    /\ parse_result = NotParsed
    /\ openai_key = TRUE
    /\ tavily_key = TRUE
    /\ exports = <<>>
    /\ critic_strictness = DefaultStrictness
    /\ agents = <<>>
    /\ num_subtopics = DefaultNumSubtopics
    /\ topic_splitter = <<TopicSplitterAgent(num_subtopics)>>

SynthNext ==
    \/ SynthesizeRaises
    \/ SynthesizeReturn
    \/ LoopHead
    \/ ReviewRaises
    \/ \E o \in CriticOutputs : ReviewReturn(o)
    \/ ReviseRaises
    \/ ReviseReturn
    \/ Finish

SynthSpec == SynthInit /\ [][SynthNext]_vars

\* ----------------------------------------------------------- run_sequential
\* The orchestrator has been constructed and run_sequential has been called.
SeqInit ==
    /\ enable_critic \in BOOLEAN
    /\ max_revisions \in 0..MaxRevisions
    /\ max_workers \in 0..MaxWorkers
    /\ sink \in SinkKinds
    /\ topic \in Topics
    /\ pc = "seq_start"
    /\ failure = ""
    /\ subtopics = <<>>
    /\ submitted = 0
    /\ future = <<>>
    /\ outcome = <<>>
    /\ collected = {}
    /\ findings = <<>>
    /\ completed = 0
    /\ subtopic_findings = <<>>
    /\ iteration = 0
    /\ current_report = NoReport
    /\ review = NoReview
    /\ returned = NoReport
    /\ progress = <<0, 1>>
    /\ verdicts = <<>>
    /\ parse_input = NoInput
    /\ parse_result = NotParsed
    /\ openai_key = TRUE
    /\ tavily_key = TRUE
    /\ exports = <<>>
    /\ critic_strictness = DefaultStrictness
    /\ agents = <<>>
    /\ num_subtopics = DefaultNumSubtopics
    /\ topic_splitter = <<TopicSplitterAgent(num_subtopics)>>
    /\ calls = [splitter |-> 0, researcher |-> 0, synthesize |-> 0,
                critic |-> 0, revise |-> 0]

\* update_progress(0.1, "Analyzing topic...") and the call of analyze_topic.
SeqStart ==
    /\ pc = "seq_start"
    /\ Emit(<<1, 10>>)
    /\ \E raises \in SinkOutcomes :
         IF raises
         THEN Fail(SinkErrorText) /\ UNCHANGED calls
         ELSE pc' = "seq_splitting" /\ Count("splitter") /\ UNCHANGED failure
    /\ UNCHANGED <<config, parser, exports, agents, subtopics, research, subtopic_findings, critic,
                   returned>>

\* analyze_topic raises on output that is not JSON.
SeqSplitterRaises ==
    /\ pc = "seq_splitting"
    /\ Fail("splitter output is not valid JSON")
    /\ UNCHANGED <<config, parser, exports, agents, subtopics, research, subtopic_findings, critic,
                   returned, progress, calls>>

\* analyze_topic returns n subtopics; run_sequential takes the list as it
\* is and starts the for loop with an empty subtopic_findings.
SeqSplitReturn(n) ==
    /\ pc = "seq_splitting"
    /\ subtopics' = SplitterOutput(n)
    /\ future' = [i \in 1..n |-> "unsubmitted"]
    /\ outcome' = [i \in 1..n |-> Unresolved]
    /\ pc' = "seq_loop"
    /\ UNCHANGED <<config, parser, exports, agents, failure, submitted, collected, findings, completed,
                   subtopic_findings, critic, returned, progress, calls>>

\* One pass of "for i, subtopic in enumerate(subtopics)" up to the call of
\* research_subtopic: i is the number of findings appended so far.
SeqResearchCall ==
    /\ pc = "seq_loop"
    /\ Len(subtopic_findings) < NumSubtopics
    /\ Emit(ResearchProgress(Len(subtopic_findings), NumSubtopics))
    /\ \E raises \in SinkOutcomes :
         IF raises
         THEN Fail(SinkErrorText) /\ UNCHANGED <<calls, future>>
         ELSE /\ pc' = "seq_researching"
              /\ Count("researcher")
              /\ future' = [future EXCEPT ![Len(subtopic_findings) + 1] =
                                             "running"]
              /\ UNCHANGED failure
    /\ UNCHANGED <<config, parser, exports, agents, subtopics, submitted, outcome, collected, findings,
                   completed, subtopic_findings, critic, returned>>

\* Variant: the new findings are put in front of the list.
SeqPrepend(fs, f) == <<f>> \o fs

\* subtopic_findings.append(findings)
SeqAppend(fs, f) == Append(fs, f)

\* researcher.research_subtopic returns and its findings are appended, or
\* it raises and the exception leaves run_sequential.
SeqResearchReturn ==
    /\ pc = "seq_researching"
    /\ LET i == Len(subtopic_findings) + 1
       IN  /\ future' = [future EXCEPT ![i] = "done"]
           /\ \/ \E f \in ResearcherResults(subtopics[i], i) :
                   /\ outcome' = [outcome EXCEPT ![i] = Returned(f)]
                   /\ subtopic_findings' = SeqAppend(subtopic_findings, f)
                   /\ pc' = "seq_loop"
                   /\ UNCHANGED failure
              \/ \E e \in ErrorTexts :
                   /\ outcome' = [outcome EXCEPT ![i] = Raised(e)]
                   /\ Fail(e)
                   /\ UNCHANGED subtopic_findings
    /\ UNCHANGED <<config, parser, exports, agents, subtopics, submitted, collected, findings,
                   completed, critic, returned, progress, calls>>

\* The for loop is exhausted: update_progress(0.8, "Synthesizing...") and
\* the call of synthesizer.synthesize.
SeqHandOff ==
    /\ pc = "seq_loop"
    /\ Len(subtopic_findings) >= NumSubtopics
    /\ Emit(<<8, 10>>)
    /\ \E raises \in SinkOutcomes :
         IF raises
         THEN Fail(SinkErrorText) /\ UNCHANGED calls
         ELSE pc' = "seq_synthesizing" /\ Count("synthesize")
              /\ UNCHANGED failure
    /\ UNCHANGED <<config, parser, exports, agents, subtopics, research, subtopic_findings, critic,
                   returned>>

\* synthesize raises when the model's answer is not JSON.
SeqSynthesizeRaises ==
    /\ pc = "seq_synthesizing"
    /\ Fail("synthesizer output is not valid JSON")
    /\ UNCHANGED <<config, parser, exports, agents, subtopics, research, subtopic_findings, critic,
                   returned, progress, calls>>

\* synthesize returns the report; nothing stands between it and the last
\* progress call.
SeqSynthesizeReturn ==
    /\ pc = "seq_synthesizing"
    /\ current_report' = BuildReport(topic, subtopic_findings, 1)
    /\ pc' = "seq_finishing"
    /\ UNCHANGED <<config, parser, exports, agents, failure, subtopics, research, subtopic_findings,
                   iteration, review, verdicts, returned, progress, calls>>

\* update_progress(1.0, "Complete!") and return report.
SeqFinish ==
    /\ pc = "seq_finishing"
    /\ Emit(<<1, 1>>)
    /\ \E raises \in SinkOutcomes :
         IF raises
         THEN Fail(SinkErrorText) /\ UNCHANGED returned
         ELSE pc' = "done" /\ returned' = current_report /\ UNCHANGED failure
    /\ UNCHANGED <<config, parser, exports, agents, subtopics, research, subtopic_findings, critic,
                   calls>>

SeqNext ==
    \/ SeqStart
    \/ SeqSplitterRaises
    \/ \E n \in 0..MaxSubtopics : SeqSplitReturn(n)
    \/ SeqResearchCall
    \/ SeqResearchReturn
    \/ SeqHandOff
    \/ SeqSynthesizeRaises
    \/ SeqSynthesizeReturn
    \/ SeqFinish

SeqSpec == SeqInit /\ [][SeqNext]_vars

\* ------------------------------------------------- _parse_findings alone
\* A Researcher has run its agent loop and is about to call _parse_findings
\* with its source pool and the agent's final message.
ParseInit ==
    /\ parse_input \in ParseInputs
    /\ parse_result = NotParsed
    /\ openai_key = TRUE
    /\ tavily_key = TRUE
    /\ exports = <<>>
    /\ critic_strictness = DefaultStrictness
    /\ agents = <<>>
    /\ num_subtopics = DefaultNumSubtopics
    /\ topic_splitter = <<TopicSplitterAgent(num_subtopics)>>
    /\ enable_critic = TRUE
    /\ max_revisions = 1
    /\ max_workers = 1
    /\ sink = "absent"
    /\ topic = "topic A"
    /\ pc = "parse_findings"
    /\ failure = ""
    /\ subtopics = SplitterOutput(2)
    /\ submitted = 2
    /\ future = [i \in 1..2 |-> IF i = parse_input.agent_id
                                THEN "running" ELSE "queued"]
    /\ outcome = [i \in 1..2 |-> Unresolved]
    /\ collected = {}
    /\ findings = <<>>
    /\ completed = 0
    /\ subtopic_findings = <<>>
    /\ iteration = 0
    /\ current_report = NoReport
    /\ review = NoReview
    /\ returned = NoReport
    /\ progress = <<0, 1>>
    /\ verdicts = <<>>
    /\ calls = [splitter |-> 1, researcher |-> 1, synthesize |-> 0,
                critic |-> 0, revise |-> 0]

\* findings = self._parse_findings(...): the call returns or raises.
ParseFindingsCall ==
    /\ pc = "parse_findings"
    /\ parse_result' = ParseFindings(parse_input)
    /\ pc' = IF parse_result'.state = "raised"
             THEN "parse_raised" ELSE "parse_returned"
    /\ UNCHANGED <<config, parse_input, exports, agents, failure, subtopics, research,
                   subtopic_findings, critic, returned, progress, calls>>

ParseNext == ParseFindingsCall

ParseSpec == ParseInit /\ [][ParseNext]_vars

\* ------------------------------------------------------------ construction
\* MultiAgentOrchestrator(...) is about to be constructed in an environment
\* that has or lacks each credential, and run is called on the result.
CredInit ==
    /\ enable_critic \in BOOLEAN
    /\ max_revisions = 2
    /\ max_workers = MaxWorkers
    /\ sink = "noop"
    /\ topic = "topic A"
    /\ pc = "constructing"
    /\ failure = ""
    /\ subtopics = <<>>
    /\ submitted = 0
    /\ future = <<>>
    /\ outcome = <<>>
    /\ collected = {}
    /\ findings = <<>>
    /\ completed = 0
    /\ subtopic_findings = <<>>
    /\ iteration = 0
    /\ current_report = NoReport
    /\ review = NoReview
    /\ returned = NoReport
    /\ progress = <<0, 1>>
    /\ verdicts = <<>>
    /\ calls = [splitter |-> 0, researcher |-> 0, synthesize |-> 0,
                critic |-> 0, revise |-> 0]
    /\ parse_input = NoInput
    /\ parse_result = NotParsed
    /\ openai_key \in BOOLEAN
    /\ tavily_key \in BOOLEAN
    /\ exports = <<>>
    /\ critic_strictness = DefaultStrictness
    /\ agents = <<>>
    /\ num_subtopics = DefaultNumSubtopics
    /\ topic_splitter = <<>>

\* __init__: self.api_key = api_key or os.getenv("OPENAI_API_KEY"); without
\* it ValueError. The Splitter, the Synthesizer and the Critic are constructed
\* with that key. No search tool is constructed and TAVILY_API_KEY is not
\* read.
Construct ==
    /\ pc = "constructing"
    /\ IF openai_key
       THEN /\ pc' = "start"
            /\ topic_splitter' = <<TopicSplitterAgent(num_subtopics)>>
            /\ UNCHANGED failure
       ELSE Fail(OpenAIKeyError) /\ UNCHANGED topic_splitter
    /\ UNCHANGED <<enable_critic, max_revisions, max_workers, sink, topic,
                   openai_key, tavily_key, critic_strictness, num_subtopics,
                   parser, exports, agents, subtopics, research,
                   subtopic_findings, critic, returned, progress, calls>>

CredNext ==
    \/ Construct
    \/ RunStart
    \/ SplitterRaises
    \/ \E n \in 0..MaxSubtopics : SplitReturn(n)
    \/ Submit
    \/ \E i \in 1..NumSubtopics : StartTask(i)
    \/ \E i \in 1..NumSubtopics : FinishTask(i)
    \/ \E i \in 1..NumSubtopics : Collect(i)
    \/ HandOff
    \/ SynthesizeRaises
    \/ SynthesizeReturn
    \/ LoopHead
    \/ ReviewRaises
    \/ \E o \in CriticOutputs : ReviewReturn(o)
    \/ ReviseRaises
    \/ ReviseReturn
    \/ Finish

CredSpec == CredInit /\ [][CredNext]_vars

\* ---------------------------------------------------- the Splitter's target
\* Bound on the num_subtopics argument, on either side of zero.
MaxNumSubtopics == 60

\* MultiAgentOrchestrator(num_subtopics = n) is about to be constructed, for
\* any integer n.
TargetInit ==
    /\ enable_critic = TRUE
    /\ max_revisions = 2
    /\ max_workers = MaxWorkers
    /\ sink = "noop"
    /\ topic = "topic A"
    /\ pc = "constructing"
    /\ failure = ""
    /\ subtopics = <<>>
    /\ submitted = 0
    /\ future = <<>>
    /\ outcome = <<>>
    /\ collected = {}
    /\ findings = <<>>
    /\ completed = 0
    /\ subtopic_findings = <<>>
    /\ iteration = 0
    /\ current_report = NoReport
    /\ review = NoReview
    /\ returned = NoReport
    /\ progress = <<0, 1>>
    /\ verdicts = <<>>
    /\ calls = [splitter |-> 0, researcher |-> 0, synthesize |-> 0,
                critic |-> 0, revise |-> 0]
    /\ parse_input = NoInput
    /\ parse_result = NotParsed
    /\ openai_key \in BOOLEAN
    /\ tavily_key = TRUE
    /\ exports = <<>>
    /\ critic_strictness = DefaultStrictness
    /\ agents = <<>>
    /\ num_subtopics \in (0 - MaxNumSubtopics)..MaxNumSubtopics
    /\ topic_splitter = <<>>

TargetNext == Construct

TargetSpec == TargetInit /\ [][TargetNext]_vars

\* ------------------------------------------------------- exporters.to_json
\* Bound on the number of exports of one report, and the indent arguments.
MaxExports == 2
DefaultIndent == 2
Indents == {0, DefaultIndent}

\* The text json.dumps writes, as the sequence of its tokens: punctuation,
\* keys, values, and the line breaks with the spaces that follow them.
Sym(s) == <<[kind |-> "sym", val |-> s]>>
Key(k) == <<[kind |-> "key", val |-> k], [kind |-> "sym", val |-> ": "]>>
Scalar(v) == <<[kind |-> "value", val |-> v]>>
NewLine(depth, indent) == <<[kind |-> "newline", val |-> depth * indent]>>

\* ",".join(parts), each part on a line of its own
RECURSIVE Join(_, _, _)
Join(parts, depth, indent) ==
    IF parts = <<>> THEN <<>>
    ELSE NewLine(depth, indent) \o Head(parts)
         \o (IF Len(parts) > 1 THEN Sym(",") ELSE <<>>)
         \o Join(Tail(parts), depth, indent)

\* A JSON array and a JSON object at nesting depth depth; an empty list is
\* written "[]".
JsonArray(parts, depth, indent) ==
    IF parts = <<>> THEN Sym("[]")
    ELSE Sym("[") \o Join(parts, depth + 1, indent)
         \o NewLine(depth, indent) \o Sym("]")

JsonObject(members, depth, indent) ==
    Sym("{")
    \o Join([j \in 1..Len(members) |-> Key(members[j][1]) \o members[j][2]],
            depth + 1, indent)
    \o NewLine(depth, indent) \o Sym("}")

\* model_dump followed by json.dumps for each model, fields in declaration
\* order. None is written null.
DumpSource(src, depth, indent) ==
    JsonObject(<< <<"title", Scalar(src.title)>>,
                  <<"url", Scalar(src.url)>> >>, depth, indent)

DumpFindings(f, depth, indent) ==
    JsonObject(
      << <<"subtopic", Scalar(f.subtopic)>>,
         <<"summary", Scalar(f.summary)>>,
         <<"key_insights",
           JsonArray([j \in 1..Len(f.key_insights) |-> Scalar(f.key_insights[j])],
                     depth + 1, indent)>>,
         <<"sources",
           JsonArray([j \in 1..Len(f.sources) |->
                         DumpSource(f.sources[j], depth + 2, indent)],
                     depth + 1, indent)>>,
         <<"researcher_notes", Scalar(f.researcher_notes)>>,
         <<"metadata",
           JsonObject(<< <<"error", Scalar(f.error)>>,
                         <<"agent_id", Scalar(f.agent_id)>> >>,
                      depth + 1, indent)>> >>,
      depth, indent)

DumpReview(r, depth, indent) ==
    IF r = NoReview THEN Sym("null")
    ELSE JsonObject(<< <<"decision", Scalar(r.decision)>>,
                       <<"overall_score", Scalar(r.overall_score)>>,
                       <<"revision_instructions",
                         Scalar(r.revision_instructions)>>,
                       <<"iteration", Scalar(r.iteration)>> >>, depth, indent)

\* to_json(report, indent):
\* json.dumps(report.model_dump(), indent=indent, ensure_ascii=False)
ToJson(report, indent) ==
    JsonObject(
      << <<"topic", Scalar(report.topic)>>,
         <<"subtopics",
           JsonArray([j \in 1..Len(report.subtopics) |->
                         Scalar(report.subtopics[j])], 1, indent)>>,
         <<"subtopic_findings",
           JsonArray([j \in 1..Len(report.subtopic_findings) |->
                         DumpFindings(report.subtopic_findings[j], 2, indent)],
                     1, indent)>>,
         <<"all_sources",
           JsonArray([j \in 1..Len(report.all_sources) |->
                         DumpSource(report.all_sources[j], 2, indent)],
                     1, indent)>>,
         <<"revision_count", Scalar(report.revision_count)>>,
         <<"critic_review", DumpReview(report.critic_review, 1, indent)>> >>,
      0, indent)

\* Variant: the export takes the sources out of the report it was given.
DrainedByDump(report) == [report EXCEPT !.all_sources = <<>>]

\* The report after model_dump: model_dump builds a new dict and json.dumps
\* reads that dict; neither assigns to the report.
AfterDump(report) == report

\* run has returned a report (synthesized, or revised once and reviewed)
\* and the caller exports it.
ExportInit ==
    /\ enable_critic \in BOOLEAN
    /\ max_revisions = 1
    /\ max_workers = 1
    /\ sink = "absent"
    /\ topic \in Topics
    /\ pc = "done"
    /\ failure = ""
    /\ \E n \in 1..MaxFindings :
         \E pools \in [1..n -> SeqsUpTo(SourceUniverse, MaxPool)] :
           /\ subtopics = SplitterOutput(n)
           /\ submitted = n
           /\ future = [i \in 1..n |-> "done"]
           /\ outcome = [i \in 1..n |->
                            Returned(FindingWith(SubtopicName(i), i, pools[i]))]
           /\ collected = 1..n
           /\ completed = n
           /\ subtopic_findings =
                [i \in 1..n |-> FindingWith(SubtopicName(i), i, pools[i])]
           /\ calls = [splitter |-> 1, researcher |-> n, synthesize |-> 1,
                       critic |-> IF enable_critic THEN 1 ELSE 0, revise |-> 0]
    /\ findings = <<>>
    /\ iteration = IF enable_critic THEN 1 ELSE 0
    /\ review = IF enable_critic
                THEN [decision |-> "APPROVED", overall_score |-> 9,
                      revision_instructions |-> "", iteration |-> 1,
                      reviewed |-> 1]
                ELSE NoReview
    /\ current_report =
         AttachReview(BuildReport(topic, subtopic_findings, 1), review)
    /\ returned = current_report
    /\ progress = <<0, 1>>
    /\ verdicts = IF enable_critic THEN <<"APPROVED">> ELSE <<>>
    /\ parse_input = NoInput
    /\ parse_result = NotParsed
    /\ openai_key = TRUE
    /\ tavily_key = TRUE
    /\ exports = <<>>
    /\ critic_strictness = DefaultStrictness
    /\ agents = <<>>
    /\ num_subtopics = DefaultNumSubtopics
    /\ topic_splitter = <<TopicSplitterAgent(num_subtopics)>>

\* One call of to_json(returned, indent).
Export(indent) ==
    /\ pc = "done"
    /\ Len(exports) < MaxExports
    /\ exports' = Append(exports, [indent |-> indent,
                                   output |-> ToJson(returned, indent)])
    /\ returned' = AfterDump(returned)
    /\ UNCHANGED <<config, parser, agents, pc, failure, subtopics, research,
                   subtopic_findings, critic, calls, progress>>

ExportNext == \E indent \in Indents : Export(indent)

ExportSpec == ExportInit /\ [][ExportNext]_vars

\* ------------------------------------------- the Critic's answers at large
\* The states in which run enters _run_critic_loop with one finding, for
\* every critic_strictness and a callback that does not raise; the steps
\* are those of the loop, with every answer of AnyCriticOutputs.
ReviewInit ==
    /\ enable_critic = TRUE
    /\ max_revisions \in 0..MaxRevisions
    /\ max_workers = 1
    /\ sink \in {"absent", "noop"}
    /\ topic = "topic A"
    /\ pc = "critic_loop"
    /\ failure = ""
    /\ subtopics = SplitterOutput(1)
    /\ submitted = 1
    /\ future = <<"done">>
    /\ outcome = <<Returned(FindingWith(SubtopicName(1), 1, <<Src("u1", "a")>>))>>
    /\ collected = {1}
    /\ completed = 1
    /\ subtopic_findings = <<FindingWith(SubtopicName(1), 1, <<Src("u1", "a")>>)>>
    /\ calls = [splitter |-> 1, researcher |-> 1, synthesize |-> 1,
                critic |-> 0, revise |-> 0]
    /\ findings = <<>>
    /\ iteration = 0
    /\ current_report = BuildReport(topic, subtopic_findings, 1)
    /\ review = NoReview
    /\ returned = NoReport
    /\ progress = IF sink = "absent" THEN <<0, 1>> ELSE <<7, 10>>
    /\ verdicts = <<>>
    /\ parse_input = NoInput
    /\ parse_result = NotParsed
    /\ openai_key = TRUE
    /\ tavily_key = TRUE
    /\ exports = <<>>
    /\ critic_strictness \in StrictnessValues
    /\ agents = <<>>
    /\ num_subtopics = DefaultNumSubtopics
    /\ topic_splitter = <<TopicSplitterAgent(num_subtopics)>>

ReviewNext ==
    \/ LoopHead
    \/ ReviewRaises
    \/ \E o \in AnyCriticOutputs : ReviewReturn(o)
    \/ ReviseRaises
    \/ ReviseReturn
    \/ Finish

ReviewSpec == ReviewInit /\ [][ReviewNext]_vars

\* ------------------------------------------------------- research_subtopic
\* Bounds of the agent loop: the web_search calls of one run and the tool
\* calls of one assistant message.
MaxSearches == 2
MaxToolCalls == 2

\* A tool call of an assistant message: a call of web_search with the dict
\* its arguments decode to, a call of web_search whose arguments are not
\* JSON, or a call of a function with another name.
WebSearchCall(args) == [name |-> "web_search", ok |-> TRUE, arguments |-> args]
BadArguments == [name |-> "web_search", ok |-> FALSE, arguments |-> NoKeys]
OtherCall == [name |-> "other", ok |-> TRUE, arguments |-> NoKeys]

\* The argument dicts of the agent: "query" is required by the tool schema
\* and "k" is optional, but the model may send anything.
AgentArguments ==
    {[query |-> "q1"], [query |-> "q2", k |-> 1], [query |-> "q2", k |-> 3],
     NoKeys}

ToolCalls == {WebSearchCall(a) : a \in AgentArguments}
                \cup {BadArguments, OtherCall}

\* message.tool_calls of a message that asks for tools.
ToolCallLists == SeqsUpTo(ToolCalls, MaxToolCalls) \ {<<>>}

WebSearches(tcs) == Cardinality({j \in 1..Len(tcs) : tcs[j].name = "web_search"})

\* The final messages of the agent.
FinalMessages ==
    {Message(TRUE, NoContent, DecodeError),
     Message(FALSE, Raw(<<"x">>, 0), DecodeError),
     Message(FALSE, Raw(<<"{", "x", "}">>, 0), Decoded([summary |-> Lit("S")]))}

\* max_sources_per_subtopic of the orchestrator, handed to each Researcher.
MaxSourcesValues == {2}

\* What web_search(query, k) can return: at most k of the hits of the
\* search service.
ResultLists ==
    {<<>>, <<Src("u1", "a")>>, <<Src("u2", "b"), Src("u1", "a")>>}

SearchReturned(r) == [raised |-> FALSE, results |-> r, text |-> ""]
SearchRaised(e) == [raised |-> TRUE, results |-> <<>>, text |-> e]

\* web_search(query, k): WebSearchTool() raises ValueError without the
\* TAVILY key; search returns the result dicts or wraps any exception of the
\* client in RuntimeError("Web search failed: ...").
SearchOutcomes(query, k) ==
    IF tavily_key
    THEN {SearchReturned(r) : r \in {x \in ResultLists : Len(x) <= k}}
         \cup {SearchRaised("Web search failed")}
    ELSE {SearchRaised(TavilyKeyError)}

\* k = args.get("k", self.max_sources)
SearchLimit(args, max_sources) == Get(args, "k", max_sources)

\* query = args.get("query")
SearchQuery(args) == Get(args, "query", NoQuery)

\* Variant: the pool keeps the results of the last search only.
ReplaceSources(all_sources, search_results) == search_results

\* all_sources.extend(search_results)
ExtendSources(all_sources, search_results) == all_sources \o search_results

\* The state of a worker task, from the moment its worker has constructed
\* the ResearcherAgent and research_subtopic has sent its first request
\* with empty all_sources and queries_used: where research_subtopic is
\* (waiting for a completion, in the for loop over tool calls, ended), the
\* tool calls of the message in the local response, those of them still to
\* process, the locals all_sources and queries_used, and the web_search
\* calls made so far.
NewAgent(ms) ==
    [at |-> "completion", max_sources |-> ms, response |-> <<>>,
     tool_calls |-> <<>>, all_sources |-> <<>>, queries_used |-> <<>>,
     searches |-> <<>>]

\* The value research_subtopic hands to its future: the SubtopicFindings of
\* _parse_findings (its metadata has no "error" key) or its exception.
ResearchSubtopicResult(pr) ==
    IF pr.state = "raised"
    THEN Raised(pr.error)
    ELSE Returned([subtopic |-> pr.findings.subtopic,
                   summary |-> pr.findings.summary,
                   key_insights |-> pr.findings.key_insights,
                   sources |-> pr.findings.sources,
                   researcher_notes |-> pr.findings.researcher_notes,
                   error |-> NoError,
                   agent_id |-> pr.findings.agent_id,
                   queries_used |-> pr.findings.queries_used,
                   num_sources |-> pr.findings.num_sources])

\* The worker's call of research_subtopic ends: the future resolves.
EndTask(i, o) ==
    /\ future' = [future EXCEPT ![i] = "done"]
    /\ outcome' = [outcome EXCEPT ![i] = o]

\* client.chat.completions.create raises.
CompletionRaises(i) ==
    /\ pc \in {"submitting", "collecting"}
    /\ i \in Running
    /\ agents[i].at = "completion"
    /\ agents' = [agents EXCEPT ![i].at = "ended"]
    /\ EndTask(i, Raised("Request timed out"))
    /\ UNCHANGED <<config, parser, exports, pc, failure, subtopics, submitted,
                   collected, findings, completed, subtopic_findings, critic,
                   returned, progress, calls>>

\* The completion is a message with tool calls: the while loop is entered
\* (again).
AgentRequests(i, tcs) ==
    /\ pc \in {"submitting", "collecting"}
    /\ i \in Running
    /\ agents[i].at = "completion"
    /\ Len(agents[i].searches) + WebSearches(tcs) <= MaxSearches
    /\ agents' = [agents EXCEPT ![i].at = "tool_calls", ![i].response = tcs,
                                 ![i].tool_calls = tcs]
    /\ UNCHANGED <<config, parser, exports, pc, failure, subtopics, research,
                   subtopic_findings, critic, returned, progress, calls>>

\* One pass of the for loop over message.tool_calls; after the last tool
\* call the next completion is requested.
ToolCall(i) ==
    /\ pc \in {"submitting", "collecting"}
    /\ i \in Running
    /\ agents[i].at = "tool_calls"
    /\ LET a == agents[i]
           tool_call == Head(a.tool_calls)
           rest == Tail(a.tool_calls)
           after == IF rest = <<>> THEN "completion" ELSE "tool_calls"
           query == SearchQuery(tool_call.arguments)
           k == SearchLimit(tool_call.arguments, a.max_sources)
       IN  IF tool_call.name # "web_search"
           THEN /\ agents' = [agents EXCEPT ![i].at = after,
                                            ![i].tool_calls = rest]
                /\ UNCHANGED <<future, outcome>>
           ELSE IF ~tool_call.ok
           THEN \* json.loads(tool_call.function.arguments) raises
                /\ agents' = [agents EXCEPT ![i].at = "ended"]
                /\ EndTask(i, Raised("JSONDecodeError"))
           ELSE \E o \in SearchOutcomes(query, k) :
                  IF o.raised
                  THEN /\ agents' = [agents EXCEPT
                            ![i].at = "ended",
                            ![i].queries_used = Append(@, query),
                            ![i].searches =
                                Append(@, [query |-> query, k |-> k,
                                           raised |-> TRUE, results |-> <<>>])]
                       /\ EndTask(i, Raised(o.text))
                  ELSE /\ agents' = [agents EXCEPT
                            ![i].at = after,
                            ![i].tool_calls = rest,
                            ![i].queries_used = Append(@, query),
                            ![i].all_sources = ExtendSources(@, o.results),
                            ![i].searches =
                                Append(@, [query |-> query, k |-> k,
                                           raised |-> FALSE,
                                           results |-> o.results])]
                       /\ UNCHANGED <<future, outcome>>
    /\ UNCHANGED <<config, parser, exports, pc, failure, subtopics, submitted,
                   collected, findings, completed, subtopic_findings, critic,
                   returned, progress, calls>>

\* The completion is a message without tool calls: the loop ends,
\* _parse_findings builds the findings and research_subtopic returns them,
\* or _parse_findings raises.
AgentAnswers(i, final_message) ==
    /\ pc \in {"submitting", "collecting"}
    /\ i \in Running
    /\ agents[i].at = "completion"
    /\ agents' = [agents EXCEPT ![i].at = "ended"]
    /\ EndTask(i, ResearchSubtopicResult(ParseFindings(
            [subtopic |-> [name |-> subtopics[i]],
             sources |-> agents[i].all_sources,
             analysis |-> final_message,
             queries_used |-> agents[i].queries_used,
             agent_id |-> i])))
    /\ UNCHANGED <<config, parser, exports, pc, failure, subtopics, submitted,
                   collected, findings, completed, subtopic_findings, critic,
                   returned, progress, calls>>

\* One research task from its submission to the hand-over of the findings.
AgentInit ==
    /\ enable_critic = FALSE
    /\ max_revisions = 0
    /\ max_workers = 1
    /\ sink \in {"absent", "raising"}
    /\ topic = "topic A"
    /\ pc = "submitting"
    /\ failure = ""
    /\ subtopics = SplitterOutput(1)
    /\ submitted = 0
    /\ future = [i \in 1..1 |-> "unsubmitted"]
    /\ outcome = [i \in 1..1 |-> Unresolved]
    /\ collected = {}
    /\ findings = <<>>
    /\ completed = 0
    /\ subtopic_findings = <<>>
    /\ iteration = 0
    /\ current_report = NoReport
    /\ review = NoReview
    /\ returned = NoReport
    /\ progress = IF sink = "absent" THEN <<0, 1>> ELSE <<2, 10>>
    /\ verdicts = <<>>
    /\ parse_input = NoInput
    /\ parse_result = NotParsed
    /\ openai_key = TRUE
    /\ tavily_key \in BOOLEAN
    /\ exports = <<>>
    /\ critic_strictness = DefaultStrictness
    /\ \E ms \in MaxSourcesValues : agents = [i \in 1..1 |-> NewAgent(ms)]
    /\ num_subtopics = DefaultNumSubtopics
    /\ topic_splitter = <<TopicSplitterAgent(num_subtopics)>>
    /\ calls = [splitter |-> 1, researcher |-> 0, synthesize |-> 0,
                critic |-> 0, revise |-> 0]

AgentNext ==
    \/ Submit
    \/ \E i \in 1..NumSubtopics : StartTask(i)
    \/ \E i \in 1..NumSubtopics : CompletionRaises(i)
    \/ \E i \in 1..NumSubtopics, tcs \in ToolCallLists : AgentRequests(i, tcs)
    \/ \E i \in 1..NumSubtopics : ToolCall(i)
    \/ \E i \in 1..NumSubtopics, m \in FinalMessages : AgentAnswers(i, m)
    \/ \E i \in 1..NumSubtopics : Collect(i)
    \/ HandOff

AgentSpec == AgentInit /\ [][AgentNext]_vars

\* ------------------------------------------------- the pool and the agents
\* The worker pool with the agent loop of every task: the tool calls asked
\* for here leave all_sources and queries_used alone, so that a task may go
\* round the while loop any number of times.
PoolToolCallLists == {<<OtherCall>>}
PoolMessages == {Message(FALSE, Raw(<<"x">>, 0), DecodeError)}

\* run has been called; agents[i] is the ResearcherAgent the worker of task
\* i will construct.
PoolInit ==
    /\ enable_critic \in BOOLEAN
    /\ max_revisions = 2
    /\ max_workers \in 1..MaxWorkers
    /\ sink \in {"absent", "raising"}
    /\ topic = "topic A"
    /\ pc = "start"
    /\ failure = ""
    /\ subtopics = <<>>
    /\ submitted = 0
    /\ future = <<>>
    /\ outcome = <<>>
    /\ collected = {}
    /\ findings = <<>>
    /\ completed = 0
    /\ subtopic_findings = <<>>
    /\ iteration = 0
    /\ current_report = NoReport
    /\ review = NoReview
    /\ returned = NoReport
    /\ progress = <<0, 1>>
    /\ verdicts = <<>>
    /\ parse_input = NoInput
    /\ parse_result = NotParsed
    /\ openai_key = TRUE
    /\ tavily_key = TRUE
    /\ exports = <<>>
    /\ critic_strictness = DefaultStrictness
    /\ agents = [i \in 1..MaxSubtopics |-> NewAgent(2)]
    /\ num_subtopics = DefaultNumSubtopics
    /\ topic_splitter = <<TopicSplitterAgent(num_subtopics)>>
    /\ calls = [splitter |-> 0, researcher |-> 0, synthesize |-> 0,
                critic |-> 0, revise |-> 0]

\* The steps of the thread that called run.
MainThread ==
    \/ RunStart
    \/ SplitterRaises
    \/ \E n \in 0..MaxSubtopics : SplitReturn(n)
    \/ Submit
    \/ \E i \in 1..NumSubtopics : Collect(i)
    \/ HandOff
    \/ SynthesizeRaises
    \/ SynthesizeReturn
    \/ LoopHead
    \/ ReviewRaises
    \/ \E o \in CriticOutputs : ReviewReturn(o)
    \/ ReviseRaises
    \/ ReviseReturn
    \/ Finish

\* The completion of the agent of task i arrives.
AgentReplies(i) ==
    \/ CompletionRaises(i)
    \/ \E tcs \in PoolToolCallLists : AgentRequests(i, tcs)
    \/ \E m \in PoolMessages : AgentAnswers(i, m)

\* The steps of the worker thread that runs task i.
Task(i) ==
    \/ StartTask(i)
    \/ ToolCall(i)
    \/ AgentReplies(i)

PoolNext ==
    \/ RunStart
    \/ SplitterRaises
    \/ \E n \in 0..MaxSubtopics : SplitReturn(n)
    \/ Submit
    \/ \E i \in 1..NumSubtopics : StartTask(i)
    \/ \E i \in 1..NumSubtopics : CompletionRaises(i)
    \/ \E i \in 1..NumSubtopics, tcs \in PoolToolCallLists : AgentRequests(i, tcs)
    \/ \E i \in 1..NumSubtopics : ToolCall(i)
    \/ \E i \in 1..NumSubtopics, m \in PoolMessages : AgentAnswers(i, m)
    \/ \E i \in 1..NumSubtopics : Collect(i)
    \/ HandOff
    \/ SynthesizeRaises
    \/ SynthesizeReturn
    \/ LoopHead
    \/ ReviewRaises
    \/ \E o \in CriticOutputs : ReviewReturn(o)
    \/ ReviseRaises
    \/ ReviseReturn
    \/ Finish

\* Every thread that can take a step takes one: the calling thread, and the
\* worker of each task (a task that waits in the queue can take no step).
\* Which message the model sends is not the scheduler's choice.
PoolFairness ==
    /\ WF_vars(MainThread)
    /\ \A i \in 1..MaxSubtopics : WF_vars(Task(i))

PoolSpec == PoolInit /\ [][PoolNext]_vars /\ PoolFairness

TypeOK ==
    /\ pc \in {"start", "splitting", "submitting", "collecting", "synthesizing",
               "critic_loop", "reviewing", "revising", "finishing", "done",
               "failed", "seq_start", "seq_splitting", "seq_loop",
               "seq_researching", "seq_synthesizing", "seq_finishing",
               "parse_findings", "parse_raised", "parse_returned",
               "constructing"}
    /\ submitted \in 0..NumSubtopics
    /\ completed \in 0..(2 * NumSubtopics)
    /\ iteration \in 0..(IF max_revisions > 0 THEN max_revisions ELSE 0)

\* =================================================================== claims
\* The finding that belongs to subtopic i: what its Researcher returned, or
\* the error placeholder of its failure.
FindingOf(i) ==
    IF outcome[i].raised
    THEN ErrorFinding(subtopics[i], outcome[i].text)
    ELSE outcome[i].result

\* _research_in_parallel has returned its list to run.
BatchReturned ==
    /\ NumSubtopics >= 1
    /\ collected = 1..NumSubtopics
    /\ pc # "collecting"

\* synthesizer.synthesize has been called with subtopic_findings.
HandedOver == calls.synthesize >= 1

\* analyze_topic has returned to run.
SplitterReturned ==
    /\ calls.splitter >= 1
    /\ pc # "splitting"
    /\ failure # "splitter output is not valid JSON"

AllRevisionNeeded ==
    \A k \in 1..Len(verdicts) : verdicts[k] = "REVISION_NEEDED"

\* C1: whenever the Splitter returned n >= 1 subtopics, the list handed to
\* the Synthesizer and stored in the returned report has exactly n entries
\* and entry i is the finding of the Splitter's i-th subtopic, for every
\* completion order and outcome of the research tasks.
C1_FindingsInSplitterOrder ==
    /\ HandedOver =>
         /\ Len(subtopic_findings) = NumSubtopics
         /\ \A i \in 1..NumSubtopics :
              i <= Len(subtopic_findings) /\ subtopic_findings[i] = FindingOf(i)
    /\ pc = "done" =>
         /\ returned.subtopic_findings = subtopic_findings
         /\ Len(returned.subtopic_findings) = NumSubtopics

\* The statement of C1 for runs whose progress callback never raises
\* (absent or returning): there the sort by index restores Splitter order.
FindingsInSplitterOrderQuietSink ==
    sink # "raising" => C1_FindingsInSplitterOrder

\* C2: once _research_in_parallel has returned, for every subtopic i whose
\* research task raised, position i holds the error placeholder of subtopic
\* i (its name, no sources, no key insights, a non-empty metadata.error,
\* summary and researcher_notes carrying the failure text) and every other
\* position j holds exactly the value the Researcher of subtopic j returned.
C2_FailureContained ==
    BatchReturned =>
      \A i \in 1..NumSubtopics :
        outcome[i].raised =>
          /\ i <= Len(subtopic_findings)
          /\ subtopic_findings[i].subtopic = subtopics[i]
          /\ subtopic_findings[i].sources = <<>>
          /\ subtopic_findings[i].key_insights = <<>>
          /\ subtopic_findings[i].error \notin {NoError, ""}
          /\ subtopic_findings[i].summary = <<"Research failed: ", outcome[i].text>>
          /\ subtopic_findings[i].researcher_notes =
                <<"Error during research: ", outcome[i].text>>
          /\ \A j \in 1..NumSubtopics :
               (j # i /\ ~outcome[j].raised) =>
                  j <= Len(subtopic_findings) /\ subtopic_findings[j] = outcome[j].result

\* The statement of C2 for runs whose progress callback never raises.
FailureContainedQuietSink ==
    sink # "raising" => C2_FailureContained

\* C3: synthesize is invoked at most once in a run, exactly once in a run
\* that returns a report, and never while a research task is still
\* unsubmitted, queued or running.
C3_SynthesizeAfterAllResearch ==
    /\ calls.synthesize <= 1
    /\ HandedOver =>
         /\ NumSubtopics >= 1
         /\ \A i \in 1..NumSubtopics : future[i] = "done"
         /\ collected = 1..NumSubtopics
    /\ pc = "synthesizing" => calls.synthesize = 1
    /\ pc = "done" => calls.synthesize = 1

C3_Witness ==
    /\ pc = "synthesizing"
    /\ NumSubtopics >= 2
    /\ \E i \in 1..NumSubtopics : outcome[i].raised
    /\ \E i \in 1..NumSubtopics : ~outcome[i].raised

\* C4: with max_revisions = N >= 1 and a Critic that returned
\* REVISION_NEEDED on every invocation, the loop has invoked revise exactly
\* N - 1 times and the returned report has revision_count = N - 1 and a
\* critic_review with iteration = N and decision REVISION_NEEDED.
C4_AlwaysRevisionNeeded ==
    (pc = "done" /\ enable_critic /\ max_revisions >= 1 /\ AllRevisionNeeded) =>
      /\ Len(verdicts) = max_revisions
      /\ calls.revise = max_revisions - 1
      /\ returned.revision_count = max_revisions - 1
      /\ returned.critic_review.iteration = max_revisions
      /\ returned.critic_review.decision = "REVISION_NEEDED"

C4_Witness ==
    /\ pc = "done"
    /\ enable_critic
    /\ max_revisions >= 2
    /\ AllRevisionNeeded
    /\ Len(verdicts) = max_revisions

\* C5: if the Critic returned REVISION_NEEDED on iterations 1..k-1 and
\* APPROVED on iteration k (1 <= k <= max_revisions), the Critic has been
\* invoked exactly k times and revise exactly k - 1 times, no Critic or
\* revise call is pending or follows, and the returned report carries the
\* review of iteration k with decision APPROVED.
C5_ApprovedAtIterationK ==
    \A k \in 1..Len(verdicts) :
      (verdicts[k] = "APPROVED" /\ \A j \in 1..(k - 1) : verdicts[j] = "REVISION_NEEDED") =>
        /\ k <= max_revisions
        /\ Len(verdicts) = k
        /\ calls.critic = k
        /\ calls.revise = k - 1
        /\ pc \in {"finishing", "done", "failed"}
        /\ pc = "done" =>
             /\ returned.critic_review.iteration = k
             /\ returned.critic_review.decision = "APPROVED"

C5_Witness ==
    /\ pc = "done"
    /\ max_revisions = 3
    /\ verdicts = <<"REVISION_NEEDED", "APPROVED">>
    /\ calls.revise = 1

\* C6: the revision_count of the report run returns equals the number of
\* revise invocations of that run, for every sequence of verdicts and every
\* max_revisions (0 when the critic is disabled).
C6_RevisionCountIsReviseCalls ==
    pc = "done" =>
      /\ returned.revision_count = calls.revise
      /\ ~enable_critic => returned.revision_count = 0

C6_Witness ==
    /\ pc = "done"
    /\ calls.revise >= 2
    /\ returned.revision_count >= 2

\* The bounds of C7 as a state predicate.
CriticLoopBounded ==
    /\ calls.critic <= max_revisions
    /\ calls.revise <= (IF max_revisions >= 1 THEN max_revisions - 1 ELSE 0)
    /\ calls.critic <= iteration
    /\ calls.revise <= calls.critic
    /\ iteration <= max_revisions
    /\ pc \in {"reviewing", "revising"} =>
         (1 <= iteration /\ iteration <= max_revisions)

\* C7: in one run the Critic is invoked at most max_revisions times and
\* revise at most max_revisions - 1 times (never, when max_revisions is 0: a
\* count is not negative), every pass of the loop advances the iteration
\* counter, while a review or a revision is in progress the counter
\* satisfies 1 <= iteration <= max_revisions, and the loop is eventually
\* left for every sequence of verdicts (run returns or fails).
C7_CriticLoopBounded ==
    /\ []CriticLoopBounded
    /\ <>(pc \in {"done", "failed"})

C7_Witness ==
    /\ pc = "reviewing"
    /\ max_revisions >= 2
    /\ iteration = max_revisions
    /\ calls.revise = max_revisions - 1

\* C8: when the returned report carries a review (the loop left through
\* APPROVED, or through REVISION_NEEDED at iteration = max_revisions), that
\* review is the last one the Critic produced and it was produced for
\* exactly the returned report, which is the last report synthesized: no
\* revise ran after it; after exhausted revisions its decision is
\* REVISION_NEEDED.
C8_ReviewIsOfReturnedReport ==
    (pc = "done" /\ returned.critic_review # NoReview) =>
      /\ returned.critic_review = review
      /\ returned.critic_review.reviewed = returned.id
      /\ returned.id = 1 + calls.revise
      /\ returned.critic_review.iteration = Len(verdicts)
      /\ returned.critic_review.decision = verdicts[Len(verdicts)]
      /\ returned.critic_review.decision \in {"APPROVED", "REVISION_NEEDED"}
      /\ returned.critic_review.decision = "REVISION_NEEDED" =>
            returned.critic_review.iteration = max_revisions

C8_Witness ==
    /\ pc = "done"
    /\ returned.critic_review.decision = "REVISION_NEEDED"
    /\ calls.revise >= 1
    /\ returned.id >= 2

\* C9: with enable_critic = False neither the Critic nor revise is ever
\* invoked, the loop is never entered, and the returned report is the
\* synthesized report with revision_count = 0 and no critic_review.
C9_CriticDisabled ==
    ~enable_critic =>
      /\ calls.critic = 0
      /\ calls.revise = 0
      /\ verdicts = <<>>
      /\ pc \notin {"critic_loop", "reviewing", "revising"}
      /\ pc = "done" =>
           /\ returned = BuildReport(topic, subtopic_findings, 1)
           /\ returned.revision_count = 0
           /\ returned.critic_review = NoReview

C9_Witness ==
    /\ pc = "done"
    /\ ~enable_critic
    /\ max_revisions >= 1
    /\ NumSubtopics >= 1

\* C10: when the Splitter returned zero subtopics, run has failed with the
\* splitter error; no Researcher was created, no research task submitted,
\* and neither the Synthesizer nor the Critic was invoked.
C10_NoSubtopicsFailsFast ==
    (SplitterReturned /\ NumSubtopics = 0) =>
      /\ pc = "failed"
      /\ failure = "Topic splitter failed to generate subtopics"
      /\ calls.researcher = 0
      /\ submitted = 0
      /\ calls.synthesize = 0
      /\ calls.critic = 0
      /\ calls.revise = 0

C10_Witness ==
    /\ SplitterReturned
    /\ NumSubtopics = 0
    /\ pc = "failed"
    /\ max_workers >= 1

\* The occurrences <<i, j>> of sources in the findings fs (source j of
\* finding i), in the order of the concatenation of the source lists.
Occurrences(fs) ==
    UNION { { <<i, j>> : j \in 1..Len(fs[i].sources) } : i \in 1..Len(fs) }
OccursBefore(a, b) == a[1] < b[1] \/ (a[1] = b[1] /\ a[2] < b[2])
SourceAt(fs, a) == fs[a[1]].sources[a[2]]

\* The occurrences that are the first with their URL.
FirstOccurrences(fs) ==
    { a \in Occurrences(fs) :
        \A b \in Occurrences(fs) :
          OccursBefore(b, a) => SourceAt(fs, b).url # SourceAt(fs, a).url }

\* all is the list of the first occurrences of fs, in encounter order.
FirstEncounterOrder(all, fs) ==
    /\ Len(all) = Cardinality(FirstOccurrences(fs))
    /\ \A k \in 1..Len(all) :
         \E a \in FirstOccurrences(fs) :
           /\ all[k] = SourceAt(fs, a)
           /\ Cardinality({b \in FirstOccurrences(fs) : OccursBefore(b, a)}) = k - 1

\* C11: in every report the Synthesizer built, all_sources contains each
\* distinct source URL of the findings exactly once, the source kept for a
\* URL is the first one seen with it, and the sources stand in
\* first-encounter order over the concatenated source lists of the findings.
C11_AllSourcesFirstEncounter ==
    current_report # NoReport =>
      LET all == current_report.all_sources
          fs == current_report.subtopic_findings
      IN  /\ fs = subtopic_findings
          /\ \A k, l \in 1..Len(all) : k # l => all[k].url # all[l].url
          /\ {all[k].url : k \in 1..Len(all)} =
               {SourceAt(fs, a).url : a \in Occurrences(fs)}
          /\ FirstEncounterOrder(all, fs)

C11_Witness ==
    /\ current_report # NoReport
    /\ Len(current_report.subtopic_findings) = 2
    /\ Len(current_report.all_sources) = 2
    /\ Cardinality(Occurrences(current_report.subtopic_findings)) = 4
    /\ \E a, b \in Occurrences(current_report.subtopic_findings) :
         /\ a[1] # b[1]
         /\ SourceAt(current_report.subtopic_findings, a).url =
              SourceAt(current_report.subtopic_findings, b).url
         /\ SourceAt(current_report.subtopic_findings, a).title #
              SourceAt(current_report.subtopic_findings, b).title

\* C12: every step in which revise returns yields a new report whose topic,
\* subtopics, subtopic_findings and all_sources equal those of the report it
\* was given and whose revision_count is that report's revision_count + 1.
C12_ReviseFrame ==
    [][(pc = "revising" /\ pc' = "critic_loop") =>
         /\ current_report'.id # current_report.id
         /\ current_report'.topic = current_report.topic
         /\ current_report'.subtopics = current_report.subtopics
         /\ current_report'.subtopic_findings = current_report.subtopic_findings
         /\ current_report'.all_sources = current_report.all_sources
         /\ current_report'.revision_count = current_report.revision_count + 1]_vars

C12_Witness ==
    /\ pc = "critic_loop"
    /\ current_report.id = 2
    /\ current_report.revision_count = 1
    /\ Len(current_report.subtopic_findings) = 2
    /\ Len(current_report.all_sources) <
         Cardinality(Occurrences(current_report.subtopic_findings))

\* Order of progress values, and the unit interval.
ProgressLeq(a, b) == a[1] * b[2] <= b[1] * a[2]
InUnitInterval(a) == 0 <= a[1] /\ a[1] <= a[2]

\* C13: in every run the values passed to the progress callback never
\* decrease from one notification to the next, and each lies in [0, 1].
C13_ProgressMonotone ==
    [][ProgressLeq(progress, progress') /\ InUnitInterval(progress')]_vars

\* The research phase of run has begun: the executor exists and its tasks
\* are being submitted.
ResearchBegun == future # <<>>

\* C14: the progress sink has no effect on control flow. The run with no
\* callback never fails on a notification and never records a notification
\* error in a finding, so if runs that differ only in the sink make the same
\* agent invocations and return the same report, no run fails with the
\* sink's error and no finding carries it.
C14_SinkHasNoEffect ==
    /\ failure # SinkErrorText
    /\ \A i \in 1..Len(subtopic_findings) :
         subtopic_findings[i].error # SinkErrorText

\* The part of C14 that concerns a callback that returns: it changes
\* nothing but the recorded progress value.
ReturningSinkHasNoEffect ==
    sink # "raising" => C14_SinkHasNoEffect

\* C15: once the research phase has begun, run returns a report whatever
\* the Researchers, the Synthesizer and the Critic answer: with a callback
\* that does not raise, run never ends in an exception.
C15_RunAlwaysReturns ==
    (ResearchBegun /\ sink # "raising") => pc # "failed"

\* analyze_topic has returned to run_sequential.
SeqSplitterReturned ==
    /\ calls.splitter >= 1
    /\ pc \notin {"seq_start", "seq_splitting"}
    /\ failure # "splitter output is not valid JSON"

\* C16: run_sequential has the fatal precondition of run: when the Splitter
\* returns zero subtopics it ends in an error and the Synthesizer is not
\* invoked on the empty list.
C16_SeqNoSubtopicsFailsFast ==
    (SeqSplitterReturned /\ NumSubtopics = 0) =>
        /\ pc = "failed"
        /\ failure = "Topic splitter failed to generate subtopics"
        /\ calls.synthesize = 0

\* C17: run_sequential contains the failure of a research task as run does:
\* a Researcher that raises does not end the call, and its subtopic gets
\* the error placeholder in the list handed to the Synthesizer.
C17_SeqFailureContained ==
    \A i \in 1..NumSubtopics :
        outcome[i].raised =>
            /\ failure # outcome[i].text
            /\ Len(subtopic_findings) >= i
            /\ subtopic_findings[i] = ErrorFinding(subtopics[i], outcome[i].text)

\* C18: run_sequential never invokes the Critic or revise, whatever
\* enable_critic and max_revisions are; the report it returns has
\* revision_count 0, no critic_review, and the findings of the Researchers
\* in Splitter order.
C18_SeqNoCritic ==
    /\ calls.critic = 0
    /\ calls.revise = 0
    /\ pc = "done" =>
         /\ returned.revision_count = 0
         /\ returned.critic_review = NoReview
         /\ Len(returned.subtopic_findings) = NumSubtopics
         /\ \A i \in 1..NumSubtopics :
              returned.subtopic_findings[i] = outcome[i].result

C18_Witness ==
    /\ pc = "done"
    /\ enable_critic
    /\ max_revisions >= 1
    /\ NumSubtopics >= 2
    /\ returned.subtopic_findings[1].sources # returned.subtopic_findings[2].sources

\* A step in which critic.review returns for an answer that has neither
\* "decision" nor "overall_score".
ReviewOfBareAnswer ==
    \E o \in CriticOutputs :
        /\ "decision" \notin DOMAIN o
        /\ "overall_score" \notin DOMAIN o
        /\ ReviewReturn(o)

\* The defaults of review and their handling by the loop: the review is
\* APPROVED with score 7, it is attached to the report that was reviewed,
\* revise is not called and the loop is left at this iteration.
CriticDefaultsApplied ==
    ReviewOfBareAnswer =>
        /\ review'.decision = "APPROVED"
        /\ review'.overall_score = 7
        /\ review'.iteration = iteration
        /\ current_report' = AttachReview(current_report, review')
        /\ calls' = calls
        /\ pc' \in {"finishing", "failed"}
        /\ pc' = "failed" => failure' = SinkErrorText

CriticDefaultsHold == [][CriticDefaultsApplied]_vars

\* C19: when the Critic's answer omits decision and overall_score, review
\* returns APPROVED with score 7 and the loop ends at that iteration with
\* the review attached and no revise call; and an answer of the Critic that
\* cannot be parsed never aborts the run.
C19_CriticOutputTolerated ==
    [][/\ CriticDefaultsApplied
       /\ failure' # "critic output is not valid JSON"]_vars

\* C20: for every final agent output (None, text without braces, invalid
\* JSON, JSON with missing or wrongly typed fields) and every source pool,
\* _parse_findings does not raise and returns a SubtopicFindings whose
\* subtopic is the name of the assigned subtopic.
C20_ParseFindingsTotal ==
    parse_result.state # "not called" =>
        /\ parse_result.state = "returned"
        /\ parse_result.findings.subtopic = parse_input.subtopic.name

\* The part of C20 that holds: when the final message is a string and the
\* value under "key_insights", if any, is a list of dicts, the call returns
\* findings for the assigned subtopic.
ParseFindingsTotalOnLists ==
    (/\ parse_result.state # "not called"
     /\ ~parse_input.analysis.isNone
     /\ InsightsError(ResultData(parse_input.analysis)) = "") =>
        /\ parse_result.state = "returned"
        /\ parse_result.findings.subtopic = parse_input.subtopic.name

\* _parse_findings has returned findings.
ParseDone == parse_result.state = "returned"

\* No insight was parsed from the agent's answer.
NoInsightParsed == KeyInsights(ResultData(parse_input.analysis)) = <<>>

\* The answer held no JSON text, or json.loads rejected it.
ParseFailure ==
    \/ JsonStart(parse_input.analysis) = -1
    \/ JsonEnd(parse_input.analysis) <= JsonStart(parse_input.analysis)
    \/ ~parse_input.analysis.json.ok

\* The URLs of the first three sources, or of all if there are fewer.
FirstUrls(sources) ==
    [j \in 1..Min(CitationLimit, Len(sources)) |-> sources[j].url]

\* C21: in the fallback of _parse_findings, when no insight was parsed and
\* at least one source was fetched, the result has exactly one KeyFinding,
\* its statement equals the summary of the result and its citations are the
\* URLs of the first three sources (all if fewer); when no source was
\* fetched the result has no insights and, on parse failure, its summary is
\* the raw text truncated to 500 characters.
C21_FallbackInsight ==
    (ParseDone /\ NoInsightParsed) =>
        LET f == parse_result.findings
        IN  /\ parse_input.sources # <<>> =>
                /\ Len(f.key_insights) = 1
                /\ f.key_insights[1].finding = f.summary
                /\ f.key_insights[1].citations = FirstUrls(parse_input.sources)
            /\ parse_input.sources = <<>> =>
                /\ f.key_insights = <<>>
                /\ ParseFailure =>
                     f.summary = Truncate(parse_input.analysis.text, SummaryLimit)

\* The parts of C21 that hold: one default insight citing the first three
\* sources, whose statement is the summary when the answer had a "summary";
\* no insight without sources; and the truncated raw text as summary of a
\* non-empty answer that could not be parsed.
FallbackInsightShape ==
    (ParseDone /\ NoInsightParsed) =>
        LET f == parse_result.findings
            rd == ResultData(parse_input.analysis)
        IN  /\ parse_input.sources # <<>> =>
                /\ Len(f.key_insights) = 1
                /\ "summary" \in DOMAIN rd =>
                     f.key_insights[1].finding = f.summary
                /\ f.key_insights[1].citations = FirstUrls(parse_input.sources)
            /\ parse_input.sources = <<>> => f.key_insights = <<>>
            /\ (ParseFailure /\ Truthy(parse_input.analysis.text)) =>
                 /\ f.summary = Truncate(parse_input.analysis.text, SummaryLimit)
                 /\ TextLen(f.summary) <= SummaryLimit

NoAgentCalled ==
    /\ calls.splitter = 0
    /\ calls.researcher = 0
    /\ calls.synthesize = 0
    /\ calls.critic = 0
    /\ calls.revise = 0

\* C22: every missing credential (LLM key or search key) is detected when
\* the orchestrator is constructed: construction fails and no agent is
\* called, so no run starts without a credential and fails or degrades in
\* the research phase because of it.
C22_CredentialsCheckedAtConstruction ==
    (~openai_key \/ ~tavily_key) =>
        /\ pc \in {"constructing", "failed"}
        /\ pc = "failed" => failure \in {OpenAIKeyError, TavilyKeyError}
        /\ NoAgentCalled
        /\ \A i \in 1..Len(outcome) : outcome[i].text # TavilyKeyError

\* The part of C22 that holds: a missing LLM key ends the construction and
\* no agent is called.
LLMKeyCheckedAtConstruction ==
    ~openai_key =>
        /\ pc \in {"constructing", "failed"}
        /\ pc = "failed" => failure = OpenAIKeyError
        /\ NoAgentCalled

TargetClamped ==
    \A n \in (0 - 1)..(MaxTarget + 2) :
        ClampTarget(n) \in MinTarget..MaxTarget

\* The number of research tasks of a run is between 2 and 4.
FanOutInRange == ResearchBegun => Len(future) \in MinTarget..MaxTarget

\* C24: for every configured num_subtopics, the number of subtopics the
\* Splitter returns to the orchestrator, and hence the number of research
\* tasks of the run, is between 2 and 4.
C24_SubtopicCountInRange ==
    /\ SplitterReturned => NumSubtopics \in MinTarget..MaxTarget
    /\ FanOutInRange

\* The shape of a report with respect to the Splitter's output: its
\* subtopics are the Splitter's names in order, they name the findings
\* position by position, and all_sources is no longer than the sources of
\* the findings together and repeats no URL.
ReportShape(report) ==
    /\ report.subtopics = subtopics
    /\ Len(report.subtopic_findings) = Len(report.subtopics)
    /\ \A i \in 1..Len(report.subtopics) :
         report.subtopics[i] = report.subtopic_findings[i].subtopic
    /\ Len(report.all_sources) <= Len(CollectSources(report.subtopic_findings))
    /\ \A i, j \in 1..Len(report.all_sources) :
         report.all_sources[i].url = report.all_sources[j].url => i = j

\* C25: in every report returned by run, subtopics is the list of the
\* Splitter's subtopic names in Splitter order, subtopics[i] is the subtopic
\* of subtopic_findings[i] for every i (also for error placeholders and
\* after revisions), and all_sources has at most as many entries as the
\* findings have sources and repeats no URL.
C25_ReportShape == pc = "done" => ReportShape(returned)

\* C25 holds for the runs whose progress callback does not raise.
ReportShapeQuietSink == (pc = "done" /\ sink # "raising") => ReportShape(returned)

\* What the loop body does with an answer of the Critic, written from the
\* answer, the iteration and max_revisions alone: the decision is the one in
\* the answer (APPROVED when it has none); APPROVED, or REVISION_NEEDED in
\* the last iteration, attaches the review and leaves the loop;
\* REVISION_NEEDED before that calls revise; anything else returns to the
\* while test.
DecisionIn(o) == IF "decision" \in DOMAIN o THEN o.decision ELSE "APPROVED"

ResponseDecidesStep(o) ==
    ReviewReturn(o) =>
        /\ review'.decision = DecisionIn(o)
        /\ IF \/ DecisionIn(o) = "APPROVED"
              \/ DecisionIn(o) = "REVISION_NEEDED" /\ iteration >= max_revisions
           THEN /\ pc' = "finishing"
                /\ calls' = calls
                /\ current_report' =
                     [current_report EXCEPT !.critic_review = review']
           ELSE IF DecisionIn(o) = "REVISION_NEEDED"
           THEN /\ pc' = "revising"
                /\ calls' = [calls EXCEPT !.revise = @ + 1]
                /\ current_report' = current_report
           ELSE /\ pc' = "critic_loop"
                /\ calls' = calls
                /\ current_report' = current_report

\* C26: critic_strictness does not influence control flow: with a callback
\* that does not raise, the transition taken on a Critic response, the
\* number of revise calls and the report are determined by the response,
\* the iteration and max_revisions, whatever the strictness, so two runs
\* that differ only in critic_strictness and receive the same responses take
\* the same transitions and return the same report.
C26_StrictnessNoControlFlow ==
    [][/\ \A o \in AnyCriticOutputs : ResponseDecidesStep(o)
       /\ critic_strictness' = critic_strictness
       /\ pc' = "done" => returned' = current_report]_vars

C26_Witness ==
    /\ pc = "done"
    /\ critic_strictness = "harsh"
    /\ calls.revise >= 1
    /\ returned.critic_review.decision = "APPROVED"
    /\ returned.critic_review.overall_score = 7

\* revision_instructions is populated exactly when the decision is
\* REVISION_NEEDED.
InstructionsIffRevision(r) ==
    r.revision_instructions # "" <=> r.decision = "REVISION_NEEDED"

\* C27: every CriticReview returned by CriticAgent.review, and every review
\* attached to a returned report, has non-empty revision_instructions if
\* and only if its decision is REVISION_NEEDED.
C27_InstructionsIffRevision ==
    /\ review # NoReview => InstructionsIffRevision(review)
    /\ (pc = "done" /\ returned.critic_review # NoReview) =>
          InstructionsIffRevision(returned.critic_review)

\* The order of the agent invocations of run, in terms of the invocation
\* counters: at most one Splitter call; Researchers only after the Splitter
\* returned; synthesize once, and only after all n Researcher invocations;
\* the Critic only after synthesize returned; revise only after a review.
InvocationOrder ==
    /\ calls.splitter <= 1
    /\ calls.researcher >= 1 => SplitterReturned
    /\ calls.researcher <= NumSubtopics
    /\ calls.synthesize <= 1
    /\ calls.synthesize = 1 =>
          /\ calls.researcher = NumSubtopics
          /\ \A i \in 1..NumSubtopics : future[i] = "done"
    /\ calls.critic >= 1 =>
          /\ calls.synthesize = 1
          /\ pc # "synthesizing"
          /\ enable_critic
    /\ calls.revise >= 1 => calls.critic >= 1

\* Once synthesize has started, no Splitter or Researcher is invoked.
NoResearchAfterSynthesis ==
    calls.synthesize >= 1 =>
        /\ calls'.splitter = calls.splitter
        /\ calls'.researcher = calls.researcher

\* C28: in every run, agent invocations occur in the order: one Splitter
\* call, then the n Researcher invocations, then one synthesize, then (critic
\* enabled) Critic and revise calls; no Splitter or Researcher invocation
\* happens after synthesize has started and no Critic invocation before
\* synthesize has returned.
C28_InvocationOrder ==
    []InvocationOrder /\ [][NoResearchAfterSynthesis]_vars

C28_Witness ==
    /\ pc = "done"
    /\ NumSubtopics >= 2
    /\ calls.critic >= 2
    /\ calls.revise >= 1
    /\ \E i \in 1..NumSubtopics : outcome[i].raised

\* A step that invokes the Critic.
CriticInvoked == calls'.critic = calls.critic + 1

\* At an invocation of the Critic every earlier review has been followed by
\* one completed revise, and the report under review is the one that revise
\* produced, which no review has seen.
ReviewsFreshReport ==
    /\ calls.revise = calls.critic
    /\ current_report.id = 1 + calls.revise
    /\ current_report.revision_count = calls.critic
    /\ calls.critic >= 1 => review.reviewed # current_report.id

\* C29: the critic loop is strictly sequential and alternating: between two
\* consecutive Critic invocations of a run exactly one revise is executed to
\* completion, so the Critic never reviews the same report twice and each
\* review after the first is of the report the previous iteration's revise
\* produced, for every decision value the Critic may return.
C29_CriticReviseAlternate ==
    [][CriticInvoked => ReviewsFreshReport]_vars

\* C29 holds as long as the Critic has answered APPROVED or REVISION_NEEDED.
AlternateOnKnownDecisions ==
    [][(CriticInvoked /\ \A k \in 1..Len(verdicts) : verdicts[k] # "OTHER")
          => ReviewsFreshReport]_vars

\* The subtopics whose Researcher has been invoked.
Researched == {i \in 1..Len(future) : future[i] \in {"running", "done"}}

\* One Researcher invocation per subtopic that was taken up, all n of them
\* once synthesis has started, each by the Researcher created for it.
OneResearcherPerSubtopic ==
    /\ calls.researcher = Cardinality(Researched)
    /\ calls.synthesize >= 1 => calls.researcher = NumSubtopics
    /\ \A i \in 1..Len(future) :
         (future[i] = "done" /\ ~outcome[i].raised) =>
            /\ outcome[i].result.agent_id = i
            /\ outcome[i].result.subtopic = subtopics[i]

\* A finished research task stays finished with the outcome it had.
ResearchNotRedone ==
    \A i \in 1..Len(future) :
        future[i] = "done" => (future'[i] = "done" /\ outcome'[i] = outcome[i])

\* C30: in every run with n subtopics exactly n Researcher invocations are
\* made, one per subtopic with its own Researcher instance, and none is
\* repeated however many revisions the critic loop performs.
C30_ResearchOncePerSubtopic ==
    []OneResearcherPerSubtopic /\ [][ResearchNotRedone]_vars

C30_Witness ==
    /\ pc = "done"
    /\ NumSubtopics >= 2
    /\ calls.revise >= 2
    /\ calls.researcher = NumSubtopics


\* ------------------------------------------------------------------- C31
\* The Researcher invocations that are executing: the futures of the pool
\* (there are none before the pool exists) that are running.
Executing == {i \in DOMAIN future : future[i] = "running"}

AtMostMaxWorkers == Cardinality(Executing) <= max_workers

\* A queued task is started only in a state in which a worker is free.
StartsOnlyWhenFree ==
    \A i \in DOMAIN future :
        (future[i] = "queued" /\ future'[i] = "running")
            => Cardinality(Executing) < max_workers

\* _research_in_parallel is submitting tasks or collecting their futures.
InResearchPhase == pc \in {"submitting", "collecting"}

\* Every task of the batch has been taken up by a worker; has been run to
\* its end.
AllStarted == \A i \in DOMAIN future : future[i] \in {"running", "done"}
AllExecuted == \A i \in DOMAIN future : future[i] = "done"

\* Some Researcher invocation, once started, never ends.
RunsForever == \E i \in 1..MaxSubtopics : <>[](i \in Executing)

\* C31 as stated: during the research phase at most max_workers Researcher
\* invocations execute at a time, a waiting task starts only when a worker
\* is free, and every one of the n tasks is eventually taken up by a worker.
C31_AllTasksExecuted ==
    /\ []AtMostMaxWorkers
    /\ [][StartsOnlyWhenFree]_vars
    /\ InResearchPhase ~> AllStarted

\* C31, amended: during the research phase at most max_workers Researcher
\* invocations execute at a time and a waiting task starts only when a
\* worker is free; unless some Researcher invocation runs forever, all n
\* tasks are eventually executed to their end.
C31_AllTasksExecutedUnlessOneRunsForever ==
    /\ []AtMostMaxWorkers
    /\ [][StartsOnlyWhenFree]_vars
    /\ RunsForever \/ (InResearchPhase ~> AllExecuted)

\* More tasks than workers, and the research phase has executed them all.
C31_Witness ==
    /\ DOMAIN future = 1..NumSubtopics
    /\ NumSubtopics > max_workers
    /\ max_workers > 1
    /\ AllExecuted
    /\ pc = "synthesizing"


\* ------------------------------------------------------------------- C32
\* C32: when a progress callback is supplied, the research phase notifies
\* it once for each resolved research task, whether the task returned
\* findings or was turned into an error placeholder, and at no other step
\* of the phase: a step that resolves a task passes a new value to the
\* callback, and every other step of the phase passes none.
C32_OneNotificationPerTask ==
    [][(sink # "absent" /\ pc = "collecting")
         => /\ collected' # collected => progress' # progress
            /\ (collected' = collected /\ pc' = "collecting")
                  => progress' = progress]_vars

\* The part that holds: a task that returned findings is notified once.
NotificationPerReturnedTask ==
    [][\A i \in 1..NumSubtopics :
         (sink # "absent" /\ pc = "collecting" /\ i \in collected' \ collected
          /\ ~outcome[i].raised)
            => progress' = ResearchProgress(completed + 1, NumSubtopics)]_vars


\* ------------------------------------------------------------------- C33
\* C33: with the critic enabled and max_revisions >= 1, a report returned
\* by run carries a critic review, whatever decisions the Critic gave.
C33_ReturnedReportReviewed ==
    (pc = "done" /\ enable_critic /\ max_revisions >= 1)
        => returned.critic_review # NoReview

\* The part that holds: the returned report carries a review when the
\* Critic's last decision was APPROVED or REVISION_NEEDED.
ReviewedOnKnownDecisions ==
    (/\ pc = "done" /\ enable_critic /\ max_revisions >= 1
     /\ verdicts[Len(verdicts)] \in {"APPROVED", "REVISION_NEEDED"})
        => /\ returned.critic_review # NoReview
           /\ returned.critic_review.decision = verdicts[Len(verdicts)]


\* ------------------------------------------------------------------- C34
\* C34: with the critic enabled and max_revisions <= 0 the body of the
\* critic loop never executes: the Critic is never invoked, nothing is
\* revised, and the report run returns is the synthesized report, with
\* revision_count 0 and no critic review.
C34_NoRevisionsAllowed ==
    (enable_critic /\ max_revisions <= 0) =>
      /\ calls.critic = 0
      /\ calls.revise = 0
      /\ iteration = 0
      /\ verdicts = <<>>
      /\ pc \notin {"reviewing", "revising"}
      /\ pc = "done" =>
           /\ returned = BuildReport(topic, subtopic_findings, 1)
           /\ returned.revision_count = 0
           /\ returned.critic_review = NoReview

\* run has returned after the loop test failed at once.
C34_Witness ==
    /\ pc = "done"
    /\ enable_critic
    /\ max_revisions <= 0
    /\ calls.synthesize = 1
    /\ NumSubtopics >= 1

\* The same with a negative max_revisions.
NegativeRevisionsReturn ==
    pc = "done" /\ enable_critic /\ max_revisions < 0


\* ------------------------------------------------------------------- C35
\* No index occurs twice in the (idx, finding) list.
IndicesDistinct ==
    \A a, b \in 1..Len(findings) :
        a # b => findings[a][1] # findings[b][1]

\* C35: the list of _research_in_parallel has at most one entry for every
\* subtopic index at any time (never a result and an error placeholder for
\* one index), and the list it returns has exactly one entry per index,
\* also when the progress callback raises.
C35_OneEntryPerIndex ==
    /\ IndicesDistinct
    /\ \A i \in collected :
         Cardinality({a \in 1..Len(findings) : findings[a][1] = i}) =
            (IF pc = "collecting" THEN 1 ELSE 0)
    /\ BatchReturned =>
         /\ Len(subtopic_findings) = NumSubtopics
         /\ completed = NumSubtopics

\* The statement of C35 for runs whose progress callback never raises.
OneEntryPerIndexQuietSink ==
    sink # "raising" => C35_OneEntryPerIndex


\* ------------------------------------------------------------------- C36
\* str(e) of the exceptions a failing call of web_search raises.
SearchFailureTexts == {"Web search failed", TavilyKeyError}

\* A search call of task i has failed.
SearchFailed(i) ==
    \E j \in 1..Len(agents[i].searches) : agents[i].searches[j].raised

\* A search call of task i has returned an empty list.
SearchEmpty(i) ==
    \E j \in 1..Len(agents[i].searches) :
        ~agents[i].searches[j].raised /\ agents[i].searches[j].results = <<>>

\* The findings recorded for subtopic i, in the list of the research phase
\* and, once it is returned, in the list handed to the Synthesizer.
Recorded(i) ==
    {findings[a][2] : a \in {b \in 1..Len(findings) : findings[b][1] = i}}
    \cup {subtopic_findings[a] :
            a \in {b \in 1..Len(subtopic_findings) :
                      subtopic_findings[b].subtopic = subtopics[i]}}

\* C36: a failed search and an empty search result can be told apart. A
\* failed search ends its research task at once with the search's error,
\* and the subtopic gets an error placeholder (no sources, although earlier
\* searches of the task may have returned some; metadata.error is the
\* error text). A search that returns no results does not end the task: a
\* task without a failed search is never ended by a search error, and when
\* it returns, its finding has no metadata.error and is recorded.
C36_SearchFailureVersusEmpty ==
    \A i \in 1..NumSubtopics :
      /\ SearchFailed(i) =>
           /\ agents[i].searches[Len(agents[i].searches)].raised
           /\ agents[i].at = "ended"
           /\ future[i] = "done"
           /\ outcome[i].raised
           /\ outcome[i].text \in SearchFailureTexts
           /\ \A f \in Recorded(i) :
                /\ f.sources = <<>>
                /\ f.error = outcome[i].text
                /\ f.error # NoError
                /\ f.summary = <<"Research failed: ", outcome[i].text>>
           /\ i \in collected => Recorded(i) # {}
      /\ (future[i] = "done" /\ ~SearchFailed(i)) =>
           /\ outcome[i].raised => outcome[i].text \notin SearchFailureTexts
           /\ ~outcome[i].raised =>
                /\ outcome[i].result.error = NoError
                /\ outcome[i].result.sources = agents[i].all_sources
                /\ i \in collected => outcome[i].result \in Recorded(i)

\* A task whose first search returned sources and whose second search
\* failed has been given its placeholder.
C36_Witness ==
    /\ pc = "synthesizing"
    /\ SearchFailed(1)
    /\ agents[1].all_sources # <<>>
    /\ subtopic_findings = <<ErrorFinding(subtopics[1], "Web search failed")>>

\* A task whose only search returned nothing has returned its finding.
EmptySearchFinishes ==
    /\ pc = "synthesizing"
    /\ SearchEmpty(1)
    /\ agents[1].all_sources = <<>>
    /\ ~outcome[1].raised
    /\ subtopic_findings = <<outcome[1].result>>


\* ------------------------------------------------------------------- C37
\* run has returned a report or has been left by an exception.
Completed == pc \in {"done", "failed"}

\* While a Researcher invocation is executing, run is in the research phase
\* and the Synthesizer has not been invoked.
ResearchHoldsRun ==
    Executing # {}
        => (pc \in {"submitting", "collecting"} /\ calls.synthesize = 0)

\* C37: when every thread keeps taking the steps it can take (every
\* external call returns), a run reaches completion, by a returned report
\* or a fatal error, unless a Researcher invocation never ends (its agent
\* asks for tool calls in every message); and as long as such an invocation
\* goes on, run stays in the research phase and the Synthesizer is not
\* invoked, so that an invocation without end keeps it there for ever.
C37_RunCompletesUnlessAgentLoops ==
    /\ RunsForever \/ <>Completed
    /\ []ResearchHoldsRun

\* A run with more subtopics than workers, in which an agent asked for
\* tool calls before it answered, has returned its report.
C37_Witness ==
    /\ pc = "done"
    /\ returned # NoReport
    /\ NumSubtopics > max_workers
    /\ \E i \in 1..NumSubtopics : agents[i].response # <<>>

\* The statement without its proviso, which the endless agent refutes.
RunCompletes == <>Completed

\* An agent is in a round of tool calls it asked for.
AgentInToolCalls ==
    \E i \in Executing : agents[i].at = "tool_calls"


\* ------------------------------------------------------------------- C38
\* The web_search calls task i has made so far.
SearchCalls(i) == {agents[i].searches[j] : j \in 1..Len(agents[i].searches)}

\* C38: every search call a Researcher makes asks for at most max_sources
\* results, whatever the arguments of the agent's tool call are.
C38_SearchWithinMaxSources ==
    \A i \in DOMAIN agents :
        \A c \in SearchCalls(i) : c.k <= agents[i].max_sources

\* The k values the agent's tool calls carry.
AgentLimits == {a.k : a \in {b \in AgentArguments : "k" \in DOMAIN b}}

\* What holds of the code: a search call asks for max_sources results or
\* for the number the agent wrote in its tool call.
SearchLimitDefaultOrAgents ==
    \A i \in DOMAIN agents :
        \A c \in SearchCalls(i) : c.k \in {agents[i].max_sources} \cup AgentLimits

\* A search call has asked for the agent's smaller k.
SearchBelowMaxSources ==
    \E i \in DOMAIN agents :
        \E c \in SearchCalls(i) : c.k < agents[i].max_sources

\* ------------------------------------------------------------------- C39
\* The results of the search calls in ss, one list after the other.
RECURSIVE ConcatResults(_)
ConcatResults(ss) ==
    IF ss = <<>> THEN <<>>
    ELSE ConcatResults(SubSeq(ss, 1, Len(ss) - 1)) \o ss[Len(ss)].results

\* The queries of the search calls in ss, in call order.
QueriesOf(ss) == [j \in 1..Len(ss) |-> ss[j].query]

\* Task i has returned a finding.
TaskReturned(i) ==
    /\ i \in DOMAIN future
    /\ future[i] = "done"
    /\ ~outcome[i].raised

\* C39: in a Researcher run the source pool is the concatenation, in call
\* order and with repeated sources kept, of the results of every search
\* call made, and queries_used holds the queries of those calls in call
\* order; the sources of the returned finding are the pool's, one for one
\* and in the pool's order, metadata.num_sources is the pool's length and
\* metadata.queries_used is that list of queries.
C39_SourcePoolIsConcatenation ==
    \A i \in DOMAIN agents :
      /\ agents[i].all_sources = ConcatResults(agents[i].searches)
      /\ agents[i].queries_used = QueriesOf(agents[i].searches)
      /\ TaskReturned(i) =>
           LET f == outcome[i].result
           IN  /\ Len(f.sources) = Len(agents[i].all_sources)
               /\ \A j \in 1..Len(f.sources) :
                    /\ f.sources[j].url = agents[i].all_sources[j].url
                    /\ f.sources[j].title = agents[i].all_sources[j].title
               /\ f.num_sources = Len(agents[i].all_sources)
               /\ f.queries_used = QueriesOf(agents[i].searches)

\* A task has returned a finding after two search calls with results, the
\* second of which found again the source of the first: the finding has
\* that source twice.
C39_Witness ==
    /\ TaskReturned(1)
    /\ Len(agents[1].searches) = 2
    /\ agents[1].searches[1].results # <<>>
    /\ outcome[1].result.num_sources = 3
    /\ outcome[1].result.sources[1] = outcome[1].result.sources[3]
    /\ outcome[1].result.queries_used[1] # outcome[1].result.queries_used[2]


\* ------------------------------------------------------------------- C40
\* C40: for every integer num_subtopics given to TopicSplitterAgent, the
\* target it stores is num_subtopics clamped to 2..4: a value below 2
\* becomes 2, a value above 4 becomes 4, and 2, 3 and 4 are kept.
C40_StoredTargetClamped ==
    \A a \in {topic_splitter[j] : j \in 1..Len(topic_splitter)} :
        /\ num_subtopics < 2 => a.num_subtopics = 2
        /\ num_subtopics > 4 => a.num_subtopics = 4
        /\ num_subtopics \in {2, 3, 4} => a.num_subtopics = num_subtopics

\* A Splitter given more than 4 has been constructed with target 4.
C40_Witness ==
    /\ pc = "start"
    /\ num_subtopics > 4
    /\ topic_splitter = <<[num_subtopics |-> 4]>>

\* A Splitter given a negative number has been constructed with target 2.
NegativeTargetRaised ==
    /\ num_subtopics < 0
    /\ topic_splitter = <<[num_subtopics |-> 2]>>

====
